---- MODULE Spec2Model ----
(***************************************************************************)
(* Model of the cell format engine of gwatts/xlsx (src/cell_fmt.go):       *)
(* the format parser (ParseFormat, tokenizeTime, tokenizeNumeric,          *)
(* tokenizeCommon), the section selector (CellFormat.FormatValue), the     *)
(* renderers (formatText, formatNumber, formatTime) and the rational       *)
(* approximation frap.                                                     *)
(*                                                                         *)
(* Text is a sequence of one-character strings.  Indices into text and     *)
(* token lists are 1-based here where Go's are 0-based.                    *)
(***************************************************************************)
EXTENDS Integers, Sequences, FiniteSets, TLC

(***************************************************************************)
(* Bounds                                                                  *)
(***************************************************************************)
\* longest format string built from the lexemes, counted in lexemes
MaxParts == 3

\* the largest number of sections of the generated format strings that
\* FormatValue is applied to
MaxSections == 5

\* the values frap is called with are p/q with q <= MaxFrapQ and
\* p/q <= MaxFrapInt, its bounds are 1..MaxFrapDenom
MaxFrapQ == 8

MaxFrapInt == 2

MaxFrapDenom == 10

(***************************************************************************)
(* Text helpers                                                            *)
(***************************************************************************)
Take(s, k) == SubSeq(s, 1, k)

Drop(s, k) == SubSeq(s, k + 1, Len(s))

Min2(a, b) == IF a < b THEN a ELSE b

SetMax(S) == CHOOSE x \in S : \A y \in S : y <= x

SetMin(S) == CHOOSE x \in S : \A y \in S : x <= y

UpperLetters ==
    <<"A","B","C","D","E","F","G","H","I","J","K","L","M",
      "N","O","P","Q","R","S","T","U","V","W","X","Y","Z">>

LowerLetters ==
    <<"a","b","c","d","e","f","g","h","i","j","k","l","m",
      "n","o","p","q","r","s","t","u","v","w","x","y","z">>

\* strings.ToLower on one byte
ToLowerCh(c) ==
    IF \E i \in 1..26 : UpperLetters[i] = c
    THEN LowerLetters[CHOOSE i \in 1..26 : UpperLetters[i] = c]
    ELSE c

ToLower(s) == [i \in 1..Len(s) |-> ToLowerCh(s[i])]

HasPrefix(s, p) == Len(s) >= Len(p) /\ Take(s, Len(p)) = p

\* bytes.IndexByte: 0-based index of the first ch in input, -1 when absent
IndexByte(input, ch) ==
    IF \E i \in 1..Len(input) : input[i] = ch
    THEN SetMin({i \in 1..Len(input) : input[i] = ch}) - 1
    ELSE -1

(***************************************************************************)
(* Tokens and sections                                                     *)
(***************************************************************************)
Tok(type, size, data) == [Type |-> type, Size |-> size, Data |-> data]

Sect(type, subType, tokens) == [Type |-> type, SubType |-> subType, Tokens |-> tokens]

(***************************************************************************)
(* Scanner utilities                                                       *)
(***************************************************************************)
\* maximal run of the first byte; input is non-empty
readRepeat(input) ==
    LET ch == input[1]
        count == SetMax({k \in 1..Len(input) : \A i \in 1..k : input[i] = ch})
    IN [rem |-> Drop(input, count), ch |-> ch, count |-> count]

\* maximal prefix of input whose bytes are all in chars
readChars(input, chars) ==
    LET i == SetMax({k \in 0..Len(input) : \A j \in 1..k : input[j] \in chars})
    IN [out |-> Take(input, i), rem |-> Drop(input, i)]

\* index of the last token of type findType, 0 when there is none (-1 in Go)
LastTokenIdxByType(tokens, findType) ==
    IF \E i \in 1..Len(tokens) : tokens[i].Type = findType
    THEN SetMax({i \in 1..Len(tokens) : tokens[i].Type = findType})
    ELSE 0

TrivialTokens == {"TokLiteral", "TokSpace", "TokRepeat"}

prevTokenType(tokens, i) ==
    LET js == {j \in 1..(i - 1) : tokens[j].Type \notin TrivialTokens}
    IN IF js = {} THEN "TokInvalid" ELSE tokens[SetMax(js)].Type

nextTokenType(tokens, i) ==
    LET js == {j \in (i + 1)..Len(tokens) : tokens[j].Type \notin TrivialTokens}
    IN IF js = {} THEN "TokInvalid" ELSE tokens[SetMin(js)].Type

\* the loop of readToChar, txt being what was collected so far
RECURSIVE readToCharLoop(_, _, _)
readToCharLoop(input, ch, txt) ==
    IF Len(input) = 0
    THEN [txt |-> <<>>, rem |-> input, isNil |-> TRUE]
    ELSE LET i == IndexByte(input, ch)
         IN IF i < 0
            THEN [txt |-> <<>>, rem |-> input, isNil |-> TRUE]
            ELSE IF i = 0 \/ input[i] # "\\"
                 THEN [txt |-> txt \o Take(input, i), rem |-> Drop(input, i + 1),
                       isNil |-> (txt \o Take(input, i) = <<>>)]
                 ELSE readToCharLoop(Drop(input, i + 1), ch,
                                     (txt \o Take(input, i - 1)) \o <<input[i + 1]>>)

readToChar(input, ch) == readToCharLoop(input, ch, <<>>)

\* skipEscape that hands a lone trailing backslash back unread
skipEscapeUnread(input) ==
    IF Len(input) > 1
    THEN [txt |-> <<input[2]>>, rem |-> Drop(input, 2)]
    ELSE [txt |-> input, rem |-> input]

skipEscape(input) ==
    IF Len(input) > 1
    THEN [txt |-> <<input[2]>>, rem |-> Drop(input, 2)]
    ELSE [txt |-> <<>>, rem |-> <<>>]

flush(tokens, other) ==
    IF Len(other) > 0
    THEN [tokens |-> Append(tokens, Tok("TokLiteral", 0, other)), other |-> <<>>]
    ELSE [tokens |-> tokens, other |-> other]

(***************************************************************************)
(* Format parser.  A parser state is a record: pc says which loop is       *)
(* running ("top" ParseFormat, "time" tokenizeTime, "num" tokenizeNumeric, *)
(* "done" after ParseFormat returned); other is the literal buffer of the  *)
(* running loop (the top-level buffer is empty whenever a sub-parser       *)
(* runs, because it is flushed before the call); brk records a `break` out *)
(* of a sub-parser loop; panic names a panic that was raised, "" if none.  *)
(***************************************************************************)
TimeAnchors == {"y", "m", "d", "h", "s"}

NumAnchors == {"#", "?", "0", "."}

Digits19 == {"1", "2", "3", "4", "5", "6", "7", "8", "9"}

Digits09 == Digits19 \cup {"0"}

General == <<"g", "e", "n", "e", "r", "a", "l">>

ColorNames ==
    { <<"b","l","a","c","k">>, <<"g","r","e","e","n">>, <<"w","h","i","t","e">>,
      <<"b","l","u","e">>, <<"m","a","g","e","n","t","a">>,
      <<"y","e","l","l","o","w">>, <<"c","y","a","n">>, <<"r","e","d">> }

isColor(col) ==
    LET c == ToLower(col)
    IN c \in ColorNames \/ HasPrefix(c, <<"c","o","l","o","r">>)

\* tokens that are common to time and number sections (and the top level)
tokenizeCommon(tokens, rem, other) ==
    LET ch == rem[1]
    IN CASE ch = "\\" ->
              LET e == skipEscape(rem)
              IN [tokens |-> tokens, rem |-> e.rem, other |-> other \o e.txt]
         [] ch = "\"" ->
              LET q == readToChar(Drop(rem, 1), "\"")
              IN [tokens |-> tokens, rem |-> q.rem, other |-> other \o q.txt]
         [] ch \in {"_", "*"} ->
              IF Len(rem) > 1
              THEN LET tokType == IF rem[1] = "*" THEN "TokRepeat" ELSE "TokSpace"
                       f == flush(tokens, other)
                   IN [tokens |-> Append(f.tokens, Tok(tokType, 0, <<rem[2]>>)),
                       rem |-> Drop(rem, 2), other |-> f.other]
              ELSE [tokens |-> tokens, rem |-> Drop(rem, 1), other |-> Append(other, "_")]
         [] OTHER ->
              [tokens |-> tokens, rem |-> Drop(rem, 1), other |-> Append(other, ch)]

\* the token type and the flag a run of a date/time letter stands for
TimeRunType(ch) ==
    CASE ch = "y" -> "TokYear"
      [] ch = "m" -> "TokMonth"
      [] ch = "d" -> "TokDay"
      [] ch = "h" -> "TokHour"
      [] ch = "s" -> "TokSecond"
      [] ch = "0" -> "TokSecFraction"
      [] OTHER -> "panic"

\* one iteration of the loop TLOOP of tokenizeTime; st.rem is non-empty
tokenizeTimeIter(st) ==
    LET rem == st.rem
        ch == rem[1]
        bracketLiteral == [st EXCEPT !.other = Append(st.other, "["), !.rem = Drop(rem, 1)]
    IN CASE ch \in {"y", "m", "d", "h", "s", "0"} ->
              LET r == readRepeat(rem)
                  ft == TimeRunType(r.ch)
                  f == flush(st.tokens, st.other)
              IN IF ft = "panic"
                 THEN [st EXCEPT !.panic = "Unhandled character token"]
                 ELSE [st EXCEPT !.rem = r.rem,
                                 !.hasDate = st.hasDate \/ r.ch \in {"y", "d"},
                                 !.hasTime = st.hasTime \/ r.ch \in {"h", "s", "0"},
                                 !.other = f.other,
                                 !.tokens = Append(f.tokens, Tok(ft, r.count, <<>>))]
         [] ch = "[" ->
              IF Len(rem) < 3
              THEN bracketLiteral
              ELSE LET r == readRepeat(Drop(rem, 1))
                       f == flush(st.tokens, st.other)
                       ft == CASE r.ch = "h" -> "TokTotalHours"
                               [] r.ch = "m" -> "TokTotalMinutes"
                               [] OTHER -> "TokTotalSeconds"
                   IN IF Len(r.rem) < 1 \/ r.rem[1] # "]"
                      THEN bracketLiteral
                      ELSE IF r.ch \in {"h", "m", "s"}
                           THEN [st EXCEPT !.hasTotal = TRUE,
                                           !.rem = Drop(r.rem, 1),
                                           !.other = f.other,
                                           !.tokens = Append(f.tokens, Tok(ft, r.count, <<>>))]
                           ELSE bracketLiteral
         [] ch \in {"A", "a"} ->
              LET f == flush(st.tokens, st.other)
              IN IF Len(rem) >= 3 /\ Take(rem, 3) \in {<<"A","/","P">>, <<"a","/","p">>}
                 THEN [st EXCEPT !.other = f.other,
                                 !.tokens = Append(f.tokens, Tok("TokAMPM", 1, <<rem[1]>>)),
                                 !.rem = Drop(rem, 3)]
                 ELSE IF Len(rem) >= 5 /\ Take(rem, 5) \in {<<"A","M","/","P","M">>,
                                                            <<"a","m","/","p","m">>}
                      THEN [st EXCEPT !.other = f.other,
                                      !.tokens = Append(f.tokens, Tok("TokAMPM", 2, <<rem[1]>>)),
                                      !.rem = Drop(rem, 5)]
                      ELSE [st EXCEPT !.other = Append(st.other, rem[1]), !.rem = Drop(rem, 1)]
         [] ch = ";" ->
              LET f == flush(st.tokens, st.other)
              IN [st EXCEPT !.tokens = f.tokens, !.other = f.other,
                            !.rem = Drop(rem, 1), !.brk = TRUE]
         [] OTHER ->
              LET c == tokenizeCommon(st.tokens, rem, st.other)
              IN [st EXCEPT !.tokens = c.tokens, !.rem = c.rem, !.other = c.other]

\* IsMinute looking only at the tokens right next to index i
IsMinuteAdjacent(tokens, i) ==
    LET pt == IF i > 1 THEN tokens[i - 1].Type ELSE "TokInvalid"
        nt == IF i < Len(tokens) THEN tokens[i + 1].Type ELSE "TokInvalid"
    IN pt = "TokHour" \/ pt = "TokTotalHours" \/ nt = "TokSecond" \/ nt = "TokTotalSeconds"

\* is the Month token at index i a minute?
IsMinute(tokens, i) ==
    LET pt == prevTokenType(tokens, i)
        nt == nextTokenType(tokens, i)
    IN pt = "TokHour" \/ pt = "TokTotalHours" \/ nt = "TokSecond" \/ nt = "TokTotalSeconds"

\* the loop that decides whether each 'm' run is a month or a minute, from
\* index i on; r carries tokens, hasDate and hasTime
RECURSIVE resolveMonths(_, _)
resolveMonths(r, i) ==
    IF i > Len(r.tokens)
    THEN r
    ELSE IF r.tokens[i].Type = "TokMonth"
         THEN IF IsMinute(r.tokens, i)
              THEN resolveMonths([r EXCEPT !.tokens[i].Type = "TokMinute", !.hasTime = TRUE], i + 1)
              ELSE resolveMonths([r EXCEPT !.hasDate = TRUE], i + 1)
         ELSE resolveMonths(r, i + 1)

\* TimeSubType with the test of hasTotal moved behind the others
TimeSubTypeTotalLast(hasTotal, hasDate, hasTime) ==
    CASE hasDate /\ hasTime -> "DateTime"
      [] hasDate /\ ~hasTime -> "Date"
      [] ~hasDate /\ hasTime -> "Time"
      [] ~hasDate /\ ~hasTime /\ hasTotal -> "Duration"
      [] OTHER -> "NoSubType"

\* the switch of tokenizeTime that sets section.SubType
TimeSubType(hasTotal, hasDate, hasTime) ==
    CASE hasTotal -> "Duration"
      [] ~hasTotal /\ hasDate /\ hasTime -> "DateTime"
      [] ~hasTotal /\ hasDate /\ ~hasTime -> "Date"
      [] ~hasTotal /\ ~hasDate /\ hasTime -> "Time"
      [] OTHER -> "NoSubType"

\* what tokenizeTime does after its loop, and what ParseFormat does with the
\* section it returns
tokenizeTimeEnd(st) ==
    LET f == flush(st.tokens, st.other)
        r == resolveMonths([tokens |-> f.tokens, hasDate |-> st.hasDate,
                            hasTime |-> st.hasTime], 1)
        section == Sect("TimeFormat", TimeSubType(st.hasTotal, r.hasDate, r.hasTime), r.tokens)
    IN [st EXCEPT !.pc = "top", !.other = <<>>, !.tokens = <<>>, !.brk = FALSE,
                  !.hasDate = FALSE, !.hasTime = FALSE, !.hasTotal = FALSE,
                  !.sets = Append(st.sets, section)]

\* one iteration of the loop NLOOP of tokenizeNumeric; st.rem is non-empty
tokenizeNumericIter(st) ==
    LET rem == st.rem
        ch == rem[1]
        f == flush(st.tokens, st.other)
    IN CASE ch \in {"0", "?", "#"} ->
              LET chars == IF st.inFrac THEN {"0", "?", "#"} ELSE {"0", "?", "#", ","}
                  r == readChars(rem, chars)
                  ttype == CASE st.inFrac -> "TokNumFracDenom"
                             [] ~st.inFrac /\ st.inDec -> "TokNumDec"
                             [] OTHER -> "TokNumInt"
              IN [st EXCEPT !.rem = r.rem,
                            !.inFrac = FALSE,
                            !.inDec = IF st.inFrac THEN st.inDec ELSE FALSE,
                            !.other = f.other,
                            !.tokens = Append(f.tokens, Tok(ttype, 0, r.out))]
         [] ch = "." ->
              [st EXCEPT !.tokens = Append(st.tokens, Tok("TokNumDecSign", 0, <<>>)),
                         !.inDec = TRUE,
                         !.rem = Drop(rem, 1)]
         [] ch = "/" ->
              LET idx == LastTokenIdxByType(st.tokens, "TokNumInt")
              IN IF idx > 0
                 THEN [st EXCEPT !.other = f.other,
                                 !.tokens = Append([f.tokens EXCEPT ![idx].Type = "TokNumFracNum"],
                                                   Tok("TokNumFracSign", 0, <<>>)),
                                 !.inFrac = TRUE,
                                 !.rem = Drop(rem, 1)]
                 ELSE [st EXCEPT !.rem = Drop(rem, 1)]
         [] ch \in Digits19 ->
              IF st.inFrac
              THEN LET r == readChars(rem, Digits09)
                   IN [st EXCEPT !.rem = r.rem,
                                 !.other = f.other,
                                 !.tokens = Append(f.tokens, Tok("TokNumFracDenom", 0, r.out)),
                                 !.inFrac = FALSE]
              ELSE LET r == readChars(rem, Digits09 \cup {".", ","})
                   IN [st EXCEPT !.rem = r.rem, !.other = st.other \o r.out]
         [] ch = "%" ->
              [st EXCEPT !.other = f.other,
                         !.tokens = Append(f.tokens, Tok("TokNumPct", 0, <<>>)),
                         !.rem = Drop(rem, 1)]
         [] ch \in {"E", "e"} ->
              LET r == readChars(Drop(rem, 1), {"?", "#", "0", "+"})
              IN [st EXCEPT !.other = f.other,
                            !.tokens = Append(f.tokens, Tok("TokNumExp", 0, <<ch>> \o r.out)),
                            !.rem = r.rem]
         [] ch = ";" ->
              [st EXCEPT !.tokens = f.tokens, !.other = f.other,
                         !.rem = Drop(rem, 1), !.brk = TRUE]
         [] OTHER ->
              LET c == tokenizeCommon(st.tokens, rem, st.other)
              IN [st EXCEPT !.tokens = c.tokens, !.rem = c.rem, !.other = c.other]

\* what tokenizeNumeric does after its loop, and what ParseFormat does with
\* the section it returns
tokenizeNumericEnd(st) ==
    LET f == flush(st.tokens, st.other)
    IN [st EXCEPT !.pc = "top", !.other = <<>>, !.tokens = <<>>, !.brk = FALSE,
                  !.inFrac = FALSE, !.inDec = FALSE,
                  !.sets = Append(st.sets, Sect("NumberFormat", "NoSubType", f.tokens))]

\* a sub-parser returns when its loop has run out of input or has met a ';'
SubParserEnd(st) ==
    IF st.panic = "" /\ st.pc \in {"time", "num"} /\ (st.brk \/ Len(st.rem) = 0)
    THEN IF st.pc = "time" THEN tokenizeTimeEnd(st) ELSE tokenizeNumericEnd(st)
    ELSE st

\* ParseFormat after its loop
ParseFormatEnd(st) ==
    IF st.panic = "" /\ st.pc = "top" /\ Len(st.rem) = 0
    THEN LET f == flush(st.tokens, st.other)
         IN [st EXCEPT !.pc = "done", !.other = <<>>, !.tokens = <<>>,
                       !.sets = IF Len(f.tokens) > 0
                                THEN Append(st.sets, Sect("TextFormat", "NoSubType", f.tokens))
                                ELSE st.sets]
    ELSE st

\* ParseFormat calls tokenizeTime(tokens, rem) or tokenizeNumeric(tokens, rem)
\* after flushing its own literal buffer; the first iteration of the
\* sub-parser's loop belongs to the same iteration of the top-level loop
EnterTime(st) ==
    LET f == flush(st.tokens, st.other)
    IN tokenizeTimeIter([st EXCEPT !.pc = "time", !.tokens = f.tokens, !.other = <<>>,
                                   !.hasDate = FALSE, !.hasTime = FALSE, !.hasTotal = FALSE,
                                   !.brk = FALSE])

EnterNumeric(st) ==
    LET f == flush(st.tokens, st.other)
    IN tokenizeNumericIter([st EXCEPT !.pc = "num", !.tokens = f.tokens, !.other = <<>>,
                                      !.inFrac = FALSE, !.inDec = FALSE, !.brk = FALSE])

\* one iteration of the loop of ParseFormat, up to the point where it either
\* finished the iteration itself or is inside the sub-parser it called
ParseFormatIter(st) ==
    LET rem == st.rem
        ch == rem[1]
        f == flush(st.tokens, st.other)
    IN CASE ch \in TimeAnchors -> EnterTime(st)
         [] ch \in NumAnchors -> EnterNumeric(st)
         [] ch \in {"g", "G"} ->
              IF Len(rem) >= Len(General) /\ ToLower(Take(rem, Len(General))) = General
              THEN [st EXCEPT !.other = f.other,
                              !.tokens = Append(f.tokens, Tok("TokGeneral", 0, <<>>)),
                              !.rem = Drop(rem, Len(General))]
              ELSE [st EXCEPT !.other = Append(st.other, ch), !.rem = Drop(rem, 1)]
         [] ch = "[" ->
              LET r == readToChar(Drop(rem, 1), "]")
                  entry == r.txt
              IN CASE Len(entry) = 0 -> [st EXCEPT !.rem = r.rem]
                   [] Len(entry) > 0 /\ isColor(entry) ->
                        [st EXCEPT !.other = f.other,
                                   !.tokens = Append(f.tokens, Tok("TokColor", 0, entry)),
                                   !.rem = r.rem]
                   [] OTHER ->
                        CASE entry[1] \in {"h", "m", "s"} -> EnterTime(st)
                          [] entry[1] \in {"<", ">", "="} ->
                               [st EXCEPT !.other = f.other,
                                          !.tokens = Append(f.tokens, Tok("TokCondition", 0, entry)),
                                          !.conditional = TRUE,
                                          !.rem = r.rem]
                          [] OTHER -> [st EXCEPT !.rem = r.rem]
         [] ch = ";" ->
              [st EXCEPT !.other = f.other,
                         !.sets = Append(st.sets, Sect("TextFormat", "NoSubType", f.tokens)),
                         !.tokens = <<>>,
                         !.rem = Drop(rem, 1)]
         [] ch = "@" ->
              [st EXCEPT !.other = f.other,
                         !.tokens = Append(f.tokens, Tok("TokCellText", 0, <<>>)),
                         !.rem = Drop(rem, 1)]
         [] OTHER ->
              LET c == tokenizeCommon(st.tokens, rem, st.other)
              IN [st EXCEPT !.tokens = c.tokens, !.rem = c.rem, !.other = c.other]

\* one loop iteration of whichever loop is running, followed by the returns
\* that the end of the input or a ';' causes
ParseStep(st) ==
    LET it == CASE st.pc = "top" -> ParseFormatIter(st)
                [] st.pc = "time" -> tokenizeTimeIter(st)
                [] st.pc = "num" -> tokenizeNumericIter(st)
    IN ParseFormatEnd(SubParserEnd(it))

\* the state in which ParseFormat(format) enters its loop
ParseStart(format) ==
    ParseFormatEnd([pc |-> "top", rem |-> format, other |-> <<>>, tokens |-> <<>>,
                    sets |-> <<>>, conditional |-> FALSE,
                    hasDate |-> FALSE, hasTime |-> FALSE, hasTotal |-> FALSE,
                    inFrac |-> FALSE, inDec |-> FALSE, brk |-> FALSE, panic |-> ""])

RECURSIVE ParseRun(_)
ParseRun(st) == IF st.pc = "done" \/ st.panic # "" THEN st ELSE ParseRun(ParseStep(st))

\* ParseFormat as a function of the format string
ParseFormat(format) ==
    LET st == ParseRun(ParseStart(format))
    IN [Sections |-> st.sets, IsConditional |-> st.conditional, panic |-> st.panic]

(***************************************************************************)
(* float64 values and their conversions to and from text.                  *)
(* A float is NaN or a signed rational n/d in lowest terms (so that +0 and *)
(* -0 are two values, as in Go).  Arithmetic on them is exact: the sets    *)
(* the values are drawn from hold decimals on which the float64            *)
(* operations of the code round nothing away that the output shows.        *)
(***************************************************************************)
RECURSIVE GCD(_, _)
GCD(a, b) == IF b = 0 THEN a ELSE GCD(b, a % b)

RECURSIVE Pow10(_)
Pow10(k) == IF k <= 0 THEN 1 ELSE 10 * Pow10(k - 1)

Fl(neg, n, d) ==
    LET g == GCD(n, d)
    IN [nan |-> FALSE, neg |-> neg, n |-> n \div g, d |-> d \div g]

NaN == [nan |-> TRUE, neg |-> FALSE, n |-> 0, d |-> 1]

FZero == Fl(FALSE, 0, 1)

\* the comparisons of Go: every comparison with NaN is false, -0 == 0
FEqZero(v) == ~v.nan /\ v.n = 0

FGtZero(v) == ~v.nan /\ v.n > 0 /\ ~v.neg

FLtZero(v) == ~v.nan /\ v.n > 0 /\ v.neg

\* math.Abs
FAbs(v) == IF v.nan THEN v ELSE [v EXCEPT !.neg = FALSE]

FMulInt(v, k) == IF v.nan THEN v ELSE Fl(v.neg, v.n * k, v.d)

FDivInt(v, k) == IF v.nan THEN v ELSE Fl(v.neg, v.n, v.d * k)

\* the fractional part returned by math.Modf (it keeps the sign of v)
FModfFrac(v) == IF v.nan THEN v ELSE Fl(v.neg, v.n % v.d, v.d)

DigitChars == <<"0", "1", "2", "3", "4", "5", "6", "7", "8", "9">>

DigitVal(c) == (CHOOSE i \in 1..10 : DigitChars[i] = c) - 1

IsDigit(c) == \E i \in 1..10 : DigitChars[i] = c

\* strconv.FormatInt(n, 10) for n >= 0
RECURSIVE IntToStr(_)
IntToStr(n) ==
    IF n < 10 THEN <<DigitChars[n + 1]>> ELSE Append(IntToStr(n \div 10), DigitChars[(n % 10) + 1])

\* the value of a string of decimal digits
RECURSIVE StrToInt(_)
StrToInt(ds) ==
    IF Len(ds) = 0 THEN 0 ELSE 10 * StrToInt(Take(ds, Len(ds) - 1)) + DigitVal(ds[Len(ds)])

Repeat(c, k) == [i \in 1..k |-> c]

\* left-pad a digit string with zeroes up to width w
ZeroPad(ds, w) == Repeat("0", w - Len(ds)) \o ds

\* n/d rounded to the nearest integer, ties to even, as strconv rounds
RoundHalfEven(n, d) ==
    LET q == n \div d
        r == n % d
    IN IF 2 * r > d \/ (2 * r = d /\ q % 2 = 1) THEN q + 1 ELSE q

\* strconv.ParseFloat(sv, 64) on [+-]digits[.digits][(e|E)[+-]digits] and on
\* NaN; anything else is a syntax error
ParseFloat(sv) ==
    LET signed == Len(sv) > 0 /\ sv[1] \in {"-", "+"}
        neg == Len(sv) > 0 /\ sv[1] = "-"
        body == IF signed THEN Drop(sv, 1) ELSE sv
        ip == readChars(body, Digits09)
        hasDot == Len(ip.rem) > 0 /\ ip.rem[1] = "."
        fp == IF hasDot THEN readChars(Drop(ip.rem, 1), Digits09) ELSE [out |-> <<>>, rem |-> ip.rem]
        hasExp == Len(fp.rem) > 0 /\ fp.rem[1] \in {"e", "E"}
        afterE == IF hasExp THEN Drop(fp.rem, 1) ELSE <<>>
        expSigned == Len(afterE) > 0 /\ afterE[1] \in {"-", "+"}
        expNeg == Len(afterE) > 0 /\ afterE[1] = "-"
        ep == readChars(IF expSigned THEN Drop(afterE, 1) ELSE afterE, Digits09)
        mant == StrToInt(ip.out \o fp.out)
        e10 == (IF expNeg THEN 0 - StrToInt(ep.out) ELSE StrToInt(ep.out)) - Len(fp.out)
        wellFormed == /\ Len(ip.out) + Len(fp.out) > 0
                      /\ IF hasExp THEN Len(ep.out) > 0 /\ Len(ep.rem) = 0
                                   ELSE Len(fp.rem) = 0
    IN CASE ToLower(body) = <<"n", "a", "n">> -> [ok |-> TRUE, v |-> NaN]
         [] ToLower(body) # <<"n", "a", "n">> /\ wellFormed ->
              [ok |-> TRUE,
               v |-> IF e10 >= 0 THEN Fl(neg, mant * Pow10(e10), 1)
                                 ELSE Fl(neg, mant, Pow10(0 - e10))]
         [] OTHER -> [ok |-> FALSE, v |-> FZero]

SignText(v) == IF v.neg THEN <<"-">> ELSE <<>>

\* strconv.FormatFloat(v, 'f', prec, 64) with prec >= 0
FormatFloatF(v, prec) ==
    IF v.nan
    THEN <<"N", "a", "N">>
    ELSE LET m == RoundHalfEven(v.n * Pow10(prec), v.d)
             ds == ZeroPad(IntToStr(m), prec + 1)
             ipart == Take(ds, Len(ds) - prec)
             dpart == Drop(ds, Len(ds) - prec)
         IN SignText(v) \o ipart \o (IF prec > 0 THEN <<".">> \o dpart ELSE <<>>)

\* the largest number of decimals the shortest form is searched in
MaxShortestDigits == 6

\* strconv.FormatFloat(v, 'f', -1, 64): the shortest decimal that parses back
\* to v, which for a decimal v is v written out
FormatFloatShortest(v) ==
    IF v.nan
    THEN <<"N", "a", "N">>
    ELSE LET ks == {k \in 0..MaxShortestDigits : Pow10(k) % v.d = 0}
             k == IF ks = {} THEN MaxShortestDigits ELSE SetMin(ks)
         IN FormatFloatF(v, k)

\* the decimal exponent e of v > 0: 10^e <= v < 10^(e+1)
RECURSIVE Exp10Up(_, _, _)
Exp10Up(n, d, e) == IF n >= 10 * d THEN Exp10Up(n, 10 * d, e + 1) ELSE e

RECURSIVE Exp10Down(_, _, _)
Exp10Down(n, d, e) == IF n < d THEN Exp10Down(10 * n, d, e - 1) ELSE e

Exp10(v) == IF v.n >= v.d THEN Exp10Up(v.n, v.d, 0) ELSE Exp10Down(v.n, v.d, 0)

\* strconv.FormatFloat(v, 'E', prec, 64) with prec >= 0
FormatFloatE(v, prec) ==
    IF v.nan
    THEN <<"N", "a", "N">>
    ELSE LET e0 == IF v.n = 0 THEN 0 ELSE Exp10(v)
             m0 == IF e0 >= 0 THEN RoundHalfEven(v.n * Pow10(prec), v.d * Pow10(e0))
                              ELSE RoundHalfEven(v.n * Pow10(prec) * Pow10(0 - e0), v.d)
             carry == m0 >= Pow10(prec + 1)
             m == IF carry THEN m0 \div 10 ELSE m0
             e == IF carry THEN e0 + 1 ELSE e0
             ds == ZeroPad(IntToStr(m), prec + 1)
             absE == IF e < 0 THEN 0 - e ELSE e
         IN SignText(v) \o <<ds[1]>> \o (IF prec > 0 THEN <<".">> \o Drop(ds, 1) ELSE <<>>)
              \o <<"E", IF e < 0 THEN "-" ELSE "+">> \o ZeroPad(IntToStr(absE), 2)

(***************************************************************************)
(* Numeric helpers                                                         *)
(***************************************************************************)
\* pad intval on the left as the leading placeholders of intfmt ask for
formatInteger(intfmt, intval) ==
    LET k == Len(intfmt) - Len(intval)
        pads == SelectSeq(Take(intfmt, IF k > 0 THEN k ELSE 0), LAMBDA c : c \in {"0", "?"})
    IN [v |-> [i \in 1..Len(pads) |-> IF pads[i] = "0" THEN "0" ELSE " "] \o intval,
        sigonly |-> Len(pads) = 0]

fmtSig(intval, ifmt) ==
    LET k == Len(ifmt) - Len(intval)
        pads == SelectSeq(Take(ifmt, IF k > 0 THEN k ELSE 0), LAMBDA c : c \in {"0", "?"})
    IN [sigonly |-> Len(pads) = 0,
        out |-> [i \in 1..Len(pads) |-> IF pads[i] = "0" THEN "0" ELSE " "] \o intval]

\* pad decval on the right as the trailing placeholders of decfmt ask for
formatDecimal(decfmt, decval) ==
    LET dvl == Len(decval)
        pads == SelectSeq(Drop(decfmt, Min2(dvl, Len(decfmt))), LAMBDA c : c \in {"0", "?"})
    IN decval \o [i \in 1..Len(pads) |-> IF pads[i] = "0" THEN "0" ELSE " "]

\* fmtThouLoop writing a comma before a leading group of three digits too
RECURSIVE fmtThouLoopLeadingComma(_, _, _)
fmtThouLoopLeadingComma(intval, i, out) ==
    IF i <= 0
    THEN out
    ELSE LET p == i - 3
         IN IF p >= 0
            THEN fmtThouLoopLeadingComma(intval, i - 3,
                                         <<",">> \o SubSeq(intval, p + 1, p + 3) \o out)
            ELSE fmtThouLoopLeadingComma(intval, i - 3, Take(intval, i) \o out)

\* the loop of fmtThou: i counts down by three, out is what was written so far
RECURSIVE fmtThouLoop(_, _, _)
fmtThouLoop(intval, i, out) ==
    IF i <= 0
    THEN out
    ELSE LET p == i - 3
         IN IF p > 0
            THEN fmtThouLoop(intval, i - 3, <<",">> \o SubSeq(intval, p + 1, p + 3) \o out)
            ELSE fmtThouLoop(intval, i - 3, Take(intval, i) \o out)

fmtThou(intval) == fmtThouLoop(intval, Len(intval), <<>>)

\* the loop of splitNum that trims the trailing zeroes of decval
trimTrailingZeroes(decval) ==
    Take(decval, SetMax({0} \cup {k \in 1..Len(decval) : decval[k] # "0"}))

\* the second half of splitNum: s is split at its decimal point, found at
\* idx (-1 if absent); s[:idx] of Go panics on a negative idx
splitDec(s, idx, expval, decPrec) ==
    IF decPrec > 0
    THEN IF idx < 0
         THEN [intval |-> <<>>, decval |-> <<>>, expval |-> <<>>,
               panic |-> "slice bounds out of range"]
         ELSE [intval |-> Take(s, idx), decval |-> trimTrailingZeroes(Drop(s, idx + 1)),
               expval |-> expval, panic |-> ""]
    ELSE [intval |-> s, decval |-> <<>>, expval |-> expval, panic |-> ""]

\* the first half of splitNum for expPrec >= 0: s is split at its 'E', found
\* at idx (-1 if absent); s[idx:] of Go panics on a negative idx
splitExp(s, idx, decPrec) ==
    IF idx < 0
    THEN [intval |-> <<>>, decval |-> <<>>, expval |-> <<>>,
          panic |-> "slice bounds out of range"]
    ELSE splitDec(Take(s, idx), IndexByte(Take(s, idx), "."), Drop(s, idx), decPrec)

\* splitNum once v is formatted as s
splitFormatted(s, expPrec, decPrec) ==
    IF expPrec >= 0
    THEN splitExp(s, IndexByte(s, "E"), decPrec)
    ELSE splitDec(s, IndexByte(s, "."), <<>>, decPrec)

splitNum(v, expPrec, decPrec) ==
    splitFormatted(IF expPrec >= 0 THEN FormatFloatE(v, decPrec) ELSE FormatFloatF(v, decPrec),
                   expPrec, decPrec)

\* strip trailing commas from the format and divide v by 1000 for each
stripTrailingComma(v, fmt) ==
    LET end == SetMax({0} \cup {k \in 1..Len(fmt) : fmt[k] # ","})
    IN [v |-> FDivInt(v, Pow10(3 * (Len(fmt) - end))), stripped |-> Take(fmt, end)]

\* the length of the string of zeroes padint slices its padding from
PadZeroes == 19

padint(size, val) ==
    LET v == IF val < 0 THEN <<"-">> \o IntToStr(0 - val) ELSE IntToStr(val)
        lv == Len(v)
    IN IF lv < size
       THEN IF size - lv > PadZeroes
            THEN [v |-> <<>>, panic |-> "slice bounds out of range"]
            ELSE [v |-> Repeat("0", size - lv) \o v, panic |-> ""]
       ELSE [v |-> v, panic |-> ""]

(***************************************************************************)
(* frap: rational approximation of n >= 0 with denominator <= maxDenom.    *)
(* A frap state is a record: pc is "loop" at the head of the for loop,     *)
(* "post" after it and "done" after the return; m is the matrix            *)
(* m[1][1] m[1][2] / m[2][1] m[2][2] (m[0][0] .. m[1][1] in Go); n and x   *)
(* are floats, ai an int64.                                                *)
(***************************************************************************)
\* int64(x) for a float x >= 0 that is not NaN
FTrunc(x) == x.n \div x.d

\* n - (a / b) in float64: a finite signed rational p/q, or -Inf (a > 0,
\* b = 0), or NaN (a = 0, b = 0)
FrapErr(n, a, b) ==
    IF b = 0
    THEN IF a = 0 THEN [k |-> "nan", p |-> 0, q |-> 1] ELSE [k |-> "ninf", p |-> 0, q |-> 1]
    ELSE [k |-> "fin", p |-> n.n * b - a * n.d, q |-> n.d * b]

\* e1 < e2 in float64
ErrLess(e1, e2) ==
    CASE e1.k = "nan" \/ e2.k = "nan" -> FALSE
      [] e1.k = "ninf" /\ e2.k = "fin" -> TRUE
      [] e1.k = "fin" /\ e2.k = "fin" -> e1.p * e2.q < e2.p * e1.q
      [] OTHER -> FALSE

frapStart(n, maxDenom) ==
    [pc |-> "loop", n |-> n, maxDenom |-> maxDenom, m |-> <<<<1, 0>>, <<0, 1>>>>,
     x |-> n, ai |-> FTrunc(n), num |-> 0, denom |-> 0, panic |-> ""]

\* the loop condition and, when it holds, one run of the loop body
frapIter(st) ==
    LET m == st.m
        ai == st.ai
        m2 == << <<m[1][1] * ai + m[1][2], m[1][1]>>, <<m[2][1] * ai + m[2][2], m[2][1]>> >>
        x2 == Fl(FALSE, st.x.d, st.x.n - ai * st.x.d)
    IN IF ~(m[2][1] * ai + m[2][2] < st.maxDenom)
       THEN [st EXCEPT !.pc = "post"]
       ELSE IF st.x.d = 1 /\ st.x.n = ai
            THEN [st EXCEPT !.m = m2, !.pc = "post"]
            ELSE [st EXCEPT !.m = m2, !.x = x2, !.ai = FTrunc(x2)]

\* the code of frap after its loop
frapEnd(st) ==
    LET m == st.m
        err1 == FrapErr(st.n, m[1][1], m[2][2])
        ai == (st.maxDenom - m[2][2]) \div m[2][1]
        n2 == m[1][1] * ai + m[1][2]
        d2 == m[2][1] * ai + m[2][2]
        err2 == FrapErr(st.n, n2, d2)
    IN IF err1.k = "fin" /\ err1.p = 0
       THEN [st EXCEPT !.pc = "done", !.num = m[1][1], !.denom = m[2][1]]
       ELSE IF m[2][1] = 0
            THEN [st EXCEPT !.pc = "done", !.panic = "integer divide by zero"]
            ELSE IF ErrLess(err1, err2)
                 THEN [st EXCEPT !.pc = "done", !.num = m[1][1], !.denom = m[2][1]]
                 ELSE [st EXCEPT !.pc = "done", !.num = n2, !.denom = d2]

frapStep(st) == IF st.pc = "loop" THEN frapIter(st) ELSE frapEnd(st)

RECURSIVE frapRun(_)
frapRun(st) == IF st.pc = "done" THEN st ELSE frapRun(frapStep(st))

\* frap as a function of its arguments
frap(n, maxDenom) == frapRun(frapStart(n, maxDenom))

(***************************************************************************)
(* Renderers.  A renderer returns the display string and, in panic, the    *)
(* panic it raised ("" if none).                                           *)
(***************************************************************************)
\* the loop of formatText from token i on
RECURSIVE formatTextLoop(_, _, _, _, _)
formatTextLoop(tokens, sv, fv, i, output) ==
    IF i > Len(tokens)
    THEN output
    ELSE LET token == tokens[i]
             piece == CASE token.Type = "TokCellText" -> sv
                        [] token.Type = "TokGeneral" -> FormatFloatShortest(fv)
                        [] token.Type = "TokLiteral" -> token.Data
                        [] OTHER -> <<>>
         IN formatTextLoop(tokens, sv, fv, i + 1, output \o piece)

formatText(tokens, sv, fv) == [str |-> formatTextLoop(tokens, sv, fv, 1, <<>>), panic |-> ""]

\* the first loop of formatNumber (scan tokens) from token i on; a carries
\* the variables the loop assigns
RECURSIVE formatNumberScan(_, _, _)
formatNumberScan(tokens, i, a) ==
    IF i > Len(tokens)
    THEN a
    ELSE LET token == tokens[i]
             st == stripTrailingComma(a.v, token.Data)
             placeholders == SelectSeq(st.stripped, LAMBDA c : c \in {"#", "0", "?"})
             lastComma == SetMax({0} \cup {k \in 1..Len(st.stripped) : st.stripped[k] = ","})
             c == Len(SelectSeq(Drop(st.stripped, lastComma),
                                LAMBDA ch : ch \in {"#", "0", "?"}))
         IN formatNumberScan(tokens, i + 1,
              CASE token.Type = "TokNumPct" -> [a EXCEPT !.v = FMulInt(a.v, 100)]
                [] token.Type = "TokNumInt" ->
                     [a EXCEPT !.hasInt = TRUE,
                               !.v = st.v,
                               !.intFmt = SelectSeq(st.stripped, LAMBDA ch : ch # ","),
                               !.hasComma = a.hasComma \/ \E k \in 1..Len(st.stripped) :
                                                              st.stripped[k] = ","]
                [] token.Type = "TokNumDec" ->
                     [a EXCEPT !.v = st.v,
                               !.decFmt = SelectSeq(st.stripped,
                                                    LAMBDA ch : ch \in {"#", "0", "?", "."}),
                               !.decPrec = a.decPrec + Len(placeholders),
                               !.commaCount = a.commaCount + c]
                [] token.Type = "TokNumFracSign" -> [a EXCEPT !.decPrec = 1]
                [] token.Type = "TokNumFracDenom" -> [a EXCEPT !.fracDenomFmt = token.Data]
                [] token.Type = "TokNumExp" -> [a EXCEPT !.hasExp = TRUE, !.expPrec = token.Size]
                [] OTHER -> a)

\* the numerator and denominator formatNumber computes when the section has a
\* denominator token; v is the value after the scan
formatNumberFraction(a) ==
    LET f == IF a.hasInt THEN FModfFrac(a.v) ELSE a.v
        fmt == a.fracDenomFmt
        fixed == StrToInt(fmt)
        r == frap(FAbs(f), Pow10(Len(fmt)) - 1)
    IN IF fmt = <<>>
       THEN [num |-> 0, denom |-> 0, panic |-> ""]
       ELSE IF f.nan
            THEN [num |-> 0, denom |-> 0, panic |-> "implementation-dependent int64(NaN)"]
            ELSE IF fmt[1] \in Digits19
                 THEN [num |-> (2 * fixed * f.n + f.d) \div (2 * f.d), denom |-> fixed,
                       panic |-> ""]
                 ELSE [num |-> r.num, denom |-> r.denom, panic |-> r.panic]

\* the second loop of formatNumber from token i on; e carries the output, the
\* variable intval, which the loop assigns, and a panic
RECURSIVE formatNumberEmit(_, _, _, _, _, _)
formatNumberEmit(tokens, i, a, frac, sp, e) ==
    IF i > Len(tokens) \/ e.panic # ""
    THEN e
    ELSE LET token == tokens[i]
             intval0 == IF e.intval = <<"0">> /\ ~a.hasExp THEN <<>> ELSE e.intval
             fi == formatInteger(a.intFmt, intval0)
             expDigits == Drop(sp.expval, 2)
             lead == SetMin({k \in 1..Len(expDigits) : expDigits[k] # "0"}
                            \cup {Len(expDigits) + 1})
             expInt == IF Drop(expDigits, lead - 1) = <<>> THEN <<"0">>
                       ELSE Drop(expDigits, lead - 1)
         IN formatNumberEmit(tokens, i + 1, a, frac, sp,
              CASE token.Type = "TokNumInt" ->
                     [e EXCEPT !.intval = intval0,
                               !.output = IF ~(fi.sigonly /\ fi.v = <<"0">> /\ ~a.hasExp)
                                          THEN e.output \o (IF a.hasComma THEN fmtThou(fi.v)
                                                            ELSE fi.v)
                                          ELSE e.output]
                [] token.Type = "TokNumDecSign" -> [e EXCEPT !.output = e.output \o <<".">>]
                [] token.Type = "TokNumDec" ->
                     [e EXCEPT !.output = e.output \o formatDecimal(a.decFmt, sp.decval)]
                [] token.Type = "TokNumExp" ->
                     IF Len(sp.expval) < 2 \/ Len(token.Data) < 2
                     THEN [e EXCEPT !.panic = "slice bounds out of range"]
                     ELSE [e EXCEPT !.output = e.output \o <<"E", "+">>
                                       \o formatInteger(Drop(token.Data, 2), expInt).v]
                [] token.Type = "TokNumFracSign" -> [e EXCEPT !.output = e.output \o <<"/">>]
                [] token.Type = "TokNumFracNum" ->
                     [e EXCEPT !.output = e.output \o fmtSig(IntToStr(frac.num), token.Data).out]
                [] token.Type = "TokNumFracDenom" ->
                     [e EXCEPT !.output = e.output \o fmtSig(IntToStr(frac.denom), token.Data).out]
                [] token.Type = "TokNumPct" -> [e EXCEPT !.output = e.output \o <<"%">>]
                [] token.Type = "TokLiteral" -> [e EXCEPT !.output = e.output \o token.Data]
                [] OTHER -> e)

\* the end of formatNumber: the second loop and strings.Join, given the
\* variables a of the first loop, the fraction and the split number
formatNumberJoin(tokens, a, frac, sp) ==
    IF frac.panic # ""
    THEN [str |-> <<>>, panic |-> frac.panic]
    ELSE IF sp.panic # ""
         THEN [str |-> <<>>, panic |-> sp.panic]
         ELSE LET e == formatNumberEmit(tokens, 1, a, frac, sp,
                           [output |-> <<>>, intval |-> sp.intval, panic |-> ""])
              IN [str |-> e.output, panic |-> e.panic]

\* formatNumber after its first loop, which left the variables a
formatNumberScanned(tokens, a) ==
    formatNumberJoin(tokens, a, formatNumberFraction(a),
                     splitNum(a.v, a.expPrec, a.decPrec))

\* formatNumber takes a positive value and formats it per the token set
formatNumber(tokens, v) ==
    formatNumberScanned(tokens,
        formatNumberScan(tokens, 1,
            [v |-> v, hasInt |-> FALSE, intFmt |-> <<>>, hasComma |-> FALSE,
             decFmt |-> <<>>, decPrec |-> 0, commaCount |-> 0,
             hasExp |-> FALSE, expPrec |-> 0 - 1, fracDenomFmt |-> <<>>]))

(***************************************************************************)
(* Calendar bridge (TimeFromExcelTime, DurationFromExcelTime) and the      *)
(* pieces of Go's time.Format that formatTime uses.  Time is counted in    *)
(* ticks of 1/TicksPerSecond seconds; a duration is a number of ticks, a   *)
(* timestamp is the number of ticks since 00:00 of day 0 of the epoch.     *)
(***************************************************************************)
\* digits of a second the model resolves
TickDigits == 1

TicksPerSecond == Pow10(TickDigits)

DayTicks == 86400 * TicksPerSecond

\* elapsed time equal to v days, for v >= 0
DurationFromExcelTime(v) ==
    LET q == v.n \div v.d
        r == v.n % v.d
        secs == (r * 86400) \div v.d
        r2 == (r * 86400) % v.d
    IN q * DayTicks + secs * TicksPerSecond + (r2 * TicksPerSecond) \div v.d

\* day 1 is 1900-01-01 or 1904-01-01
TimeFromExcelTime(v, date1904) == DurationFromExcelTime(v)

\* 1900 counts as a leap year under the 1900 epoch
IsLeap(y, date1904) ==
    (y % 4 = 0 /\ (y % 100 # 0 \/ y % 400 = 0)) \/ (y = 1900 /\ ~date1904)

MonthLen(y, mo, date1904) ==
    CASE mo = 2 -> IF IsLeap(y, date1904) THEN 29 ELSE 28
      [] mo \in {4, 6, 9, 11} -> 30
      [] OTHER -> 31

\* the date of day number day (>= 1) counted from the first of month mo of y
RECURSIVE DateFrom(_, _, _, _)
DateFrom(y, mo, day, date1904) ==
    IF day <= MonthLen(y, mo, date1904)
    THEN [year |-> y, month |-> mo, day |-> day]
    ELSE IF mo = 12
         THEN DateFrom(y + 1, 1, day - MonthLen(y, mo, date1904), date1904)
         ELSE DateFrom(y, mo + 1, day - MonthLen(y, mo, date1904), date1904)

EpochYear(date1904) == IF date1904 THEN 1904 ELSE 1900

\* the civil date of day number dayNo >= 0 of the epoch
CivilDate(dayNo, date1904) ==
    IF dayNo = 0
    THEN [year |-> EpochYear(date1904) - 1, month |-> 12, day |-> 31]
    ELSE DateFrom(EpochYear(date1904), 1, dayNo, date1904)

\* 0 is Sunday; 1900-01-01 was a Monday, 1904-01-01 a Friday, and the day
\* 1900-02-29 does not exist in the calendar the weekday is taken from
Weekday(dayNo, date1904) ==
    IF date1904 THEN (dayNo + 4) % 7
    ELSE IF dayNo < 60 THEN dayNo % 7 ELSE (dayNo + 6) % 7

MonthNames == <<<<"J","a","n","u","a","r","y">>,
               <<"F","e","b","r","u","a","r","y">>,
               <<"M","a","r","c","h">>,
               <<"A","p","r","i","l">>,
               <<"M","a","y">>,
               <<"J","u","n","e">>,
               <<"J","u","l","y">>,
               <<"A","u","g","u","s","t">>,
               <<"S","e","p","t","e","m","b","e","r">>,
               <<"O","c","t","o","b","e","r">>,
               <<"N","o","v","e","m","b","e","r">>,
               <<"D","e","c","e","m","b","e","r">>>>

DayNames == <<<<"S","u","n","d","a","y">>,
             <<"M","o","n","d","a","y">>,
             <<"T","u","e","s","d","a","y">>,
             <<"W","e","d","n","e","s","d","a","y">>,
             <<"T","h","u","r","s","d","a","y">>,
             <<"F","r","i","d","a","y">>,
             <<"S","a","t","u","r","d","a","y">>>>

\* t.Round(res): to the nearest multiple of res, halfway values up
TimeRound(t, res) ==
    LET r == t % res
    IN IF res <= 1 THEN t ELSE IF r + r < res THEN t - r ELSE t + res - r

\* the fields of a timestamp that the layouts show
TimeFields(t, date1904) ==
    LET dayNo == t \div DayTicks
        tod == t % DayTicks
        date == CivilDate(dayNo, date1904)
    IN [year |-> date.year, month |-> date.month, day |-> date.day,
        weekday |-> Weekday(dayNo, date1904),
        hour |-> tod \div (3600 * TicksPerSecond),
        minute |-> (tod \div (60 * TicksPerSecond)) % 60,
        second |-> (tod \div TicksPerSecond) % 60,
        frac |-> tod % TicksPerSecond]

\* the hour of the 12-hour clock
Hour12(h) == IF h % 12 = 0 THEN 12 ELSE h % 12

\* TimeFormat with the layout "Mon" giving the first two letters of the name
TimeFormatShortDay(tf, layout) ==
    CASE layout = "2006" -> ZeroPad(IntToStr(tf.year), 4)
      [] layout = "06" -> ZeroPad(IntToStr(tf.year % 100), 2)
      [] layout = "1" -> IntToStr(tf.month)
      [] layout = "01" -> ZeroPad(IntToStr(tf.month), 2)
      [] layout = "Jan" -> Take(MonthNames[tf.month], 3)
      [] layout = "January" -> MonthNames[tf.month]
      [] layout = "2" -> IntToStr(tf.day)
      [] layout = "02" -> ZeroPad(IntToStr(tf.day), 2)
      [] layout = "Mon" -> Take(DayNames[tf.weekday + 1], 2)
      [] layout = "Monday" -> DayNames[tf.weekday + 1]
      [] layout = "15" -> ZeroPad(IntToStr(tf.hour), 2)
      [] layout = "3" -> IntToStr(Hour12(tf.hour))
      [] layout = "03" -> ZeroPad(IntToStr(Hour12(tf.hour)), 2)
      [] layout = "4" -> IntToStr(tf.minute)
      [] layout = "04" -> ZeroPad(IntToStr(tf.minute), 2)
      [] layout = "5" -> IntToStr(tf.second)
      [] layout = "05" -> ZeroPad(IntToStr(tf.second), 2)
      [] layout = "PM" -> IF tf.hour >= 12 THEN <<"P", "M">> ELSE <<"A", "M">>

\* t.Format(layout) for the layouts formatTime uses
TimeFormat(tf, layout) ==
    CASE layout = "2006" -> ZeroPad(IntToStr(tf.year), 4)
      [] layout = "06" -> ZeroPad(IntToStr(tf.year % 100), 2)
      [] layout = "1" -> IntToStr(tf.month)
      [] layout = "01" -> ZeroPad(IntToStr(tf.month), 2)
      [] layout = "Jan" -> Take(MonthNames[tf.month], 3)
      [] layout = "January" -> MonthNames[tf.month]
      [] layout = "2" -> IntToStr(tf.day)
      [] layout = "02" -> ZeroPad(IntToStr(tf.day), 2)
      [] layout = "Mon" -> Take(DayNames[tf.weekday + 1], 3)
      [] layout = "Monday" -> DayNames[tf.weekday + 1]
      [] layout = "15" -> ZeroPad(IntToStr(tf.hour), 2)
      [] layout = "3" -> IntToStr(Hour12(tf.hour))
      [] layout = "03" -> ZeroPad(IntToStr(Hour12(tf.hour)), 2)
      [] layout = "4" -> IntToStr(tf.minute)
      [] layout = "04" -> ZeroPad(IntToStr(tf.minute), 2)
      [] layout = "5" -> IntToStr(tf.second)
      [] layout = "05" -> ZeroPad(IntToStr(tf.second), 2)
      [] layout = "PM" -> IF tf.hour >= 12 THEN <<"P", "M">> ELSE <<"A", "M">>

\* t.Format("." + strings.Repeat("0", size))[1:]: size digits of the second
TimeFormatFraction(tf, size) ==
    LET ds == ZeroPad(IntToStr(tf.frac), TickDigits)
    IN IF size <= TickDigits THEN Take(ds, size) ELSE ds \o Repeat("0", size - TickDigits)

\* the resolution the first loop of formatTime leaves in res
RECURSIVE formatTimeRes(_, _, _)
formatTimeRes(tokens, i, res) ==
    IF i > Len(tokens)
    THEN res
    ELSE formatTimeRes(tokens, i + 1,
             IF tokens[i].Type = "TokSecFraction"
             THEN (IF tokens[i].Size <= TickDigits THEN Pow10(TickDigits - tokens[i].Size) ELSE 1)
             ELSE res)

\* the second loop of formatTime from token i on; e carries the output, the
\* variable f, which survives from one token to the next, and a panic
RECURSIVE formatTimeEmit(_, _, _, _, _, _)
formatTimeEmit(tokens, i, tf, d, ampm, e) ==
    IF i > Len(tokens) \/ e.panic # ""
    THEN e
    ELSE LET token == tokens[i]
             h1fmt == IF ampm THEN "3" ELSE "15"
             h2fmt == IF ampm THEN "03" ELSE "15"
             pm == TimeFormat(tf, "PM")
             ap == IF token.Size = 1 THEN Take(pm, 1) ELSE pm
             unit == CASE token.Type = "TokTotalHours" -> 3600 * TicksPerSecond
                       [] token.Type = "TokTotalMinutes" -> 60 * TicksPerSecond
                       [] OTHER -> TicksPerSecond
             total == padint(token.Size, d \div unit)
             f == CASE token.Type = "TokYear" ->
                         IF token.Size > 2 THEN TimeFormat(tf, "2006") ELSE TimeFormat(tf, "06")
                    [] token.Type = "TokMonth" ->
                         CASE token.Size = 1 -> TimeFormat(tf, "1")
                           [] token.Size = 2 -> TimeFormat(tf, "01")
                           [] token.Size = 3 -> TimeFormat(tf, "Jan")
                           [] token.Size = 5 -> Take(TimeFormat(tf, "Jan"), 1)
                           [] OTHER -> TimeFormat(tf, "January")
                    [] token.Type = "TokDay" ->
                         CASE token.Size = 1 -> TimeFormat(tf, "2")
                           [] token.Size = 2 -> TimeFormat(tf, "02")
                           [] token.Size = 3 -> TimeFormat(tf, "Mon")
                           [] OTHER -> TimeFormat(tf, "Monday")
                    [] token.Type = "TokHour" ->
                         IF token.Size = 1 THEN TimeFormat(tf, h1fmt) ELSE TimeFormat(tf, h2fmt)
                    [] token.Type = "TokAMPM" ->
                         IF token.Data = <<"a">> THEN ToLower(ap) ELSE ap
                    [] token.Type = "TokMinute" ->
                         IF token.Size = 1 THEN TimeFormat(tf, "4") ELSE TimeFormat(tf, "04")
                    [] token.Type = "TokSecond" ->
                         IF token.Size = 1 THEN TimeFormat(tf, "5") ELSE TimeFormat(tf, "05")
                    [] token.Type = "TokSecFraction" -> TimeFormatFraction(tf, token.Size)
                    [] token.Type \in {"TokTotalHours", "TokTotalMinutes", "TokTotalSeconds"} ->
                         total.v
                    [] token.Type = "TokLiteral" -> token.Data
                    [] OTHER -> e.f
         IN formatTimeEmit(tokens, i + 1, tf, d, ampm,
              IF token.Type \in {"TokTotalHours", "TokTotalMinutes", "TokTotalSeconds"}
                 /\ total.panic # ""
              THEN [e EXCEPT !.panic = total.panic]
              ELSE [e EXCEPT !.f = f, !.output = e.output \o f])

\* the display string, the rounded timestamp and the duration
formatTime(tokens, v, date1904) ==
    LET d == DurationFromExcelTime(v)
        ampm == \E i \in 1..Len(tokens) : tokens[i].Type = "TokAMPM"
        t == TimeRound(TimeFromExcelTime(v, date1904), formatTimeRes(tokens, 1, TicksPerSecond))
        e == formatTimeEmit(tokens, 1, TimeFields(t, date1904), d, ampm,
                            [output |-> <<>>, f |-> <<>>, panic |-> ""])
    IN IF v.nan
       THEN [str |-> <<>>, t |-> 0, d |-> 0, panic |-> "implementation-dependent int64(NaN)"]
       ELSE [str |-> e.output, t |-> t, d |-> d, panic |-> e.panic]

(***************************************************************************)
(* Section selector.  A FormattedValue is a record with the fields of the  *)
(* Go struct, the error and the panic of the call ("" if none), and two    *)
(* observations of the call: selected, the index (from 0) of the section   *)
(* that was handed to formatValue, -1 if none was, and fvArg, the float    *)
(* that was handed over with it.                                           *)
(***************************************************************************)
CellTypes ==
    {"CellTypeString", "CellTypeFormula", "CellTypeNumeric",
     "CellTypeBool", "CellTypeInline", "CellTypeError"}

NilValue == [kind |-> "nil", val |-> 0]

ZeroFormattedValue ==
    [GoValue |-> NilValue, FormattedValue |-> <<>>,
     Section |-> Sect("NoType", "NoSubType", <<>>),
     err |-> "", panic |-> "", selected |-> 0 - 1, fvArg |-> FZero]

\* formatValue storing what formatTime returned
setTimeResult(v, s, ft) ==
    [v EXCEPT !.Section = s, !.FormattedValue = ft.str, !.panic = ft.panic,
              !.GoValue = IF s.SubType = "Duration"
                          THEN [kind |-> "duration", val |-> ft.d]
                          ELSE [kind |-> "time", val |-> ft.t]]

\* formatValue storing what formatNumber or formatText returned
setTextResult(v, s, f) ==
    [v EXCEPT !.Section = s, !.FormattedValue = f.str, !.panic = f.panic]

\* formatValue renders fv (or sv) with section s into v
formatValue(v, s, sv, fv, date1904) ==
    CASE s.Type = "TimeFormat" -> setTimeResult(v, s, formatTime(s.Tokens, fv, date1904))
      [] s.Type = "NumberFormat" -> setTextResult(v, s, formatNumber(s.Tokens, fv))
      [] s.Type = "TextFormat" -> setTextResult(v, s, formatText(s.Tokens, sv, fv))
      [] OTHER -> [v EXCEPT !.Section = s, !.panic = "Unknown token type"]

\* EarlyReturn with the test of ct.IsConditional moved to the front
EarlyReturnGateFirst(cellType, parsed, isConditional) ==
    IF isConditional THEN "UnsupportedCondition"
    ELSE IF cellType = "CellTypeBool" THEN "bool"
    ELSE IF cellType = "CellTypeError" THEN "error"
    ELSE IF cellType \in {"CellTypeNumeric", "CellTypeFormula"} /\ ~parsed THEN "ParseNumber"
    ELSE "none"

\* the returns of FormatValue that precede the section switch, in the order
\* of the code: the Boolean and Error cases of the switch on cellType, the
\* error of strconv.ParseFloat, the test of ct.IsConditional
EarlyReturn(cellType, parsed, isConditional) ==
    IF cellType = "CellTypeBool" THEN "bool"
    ELSE IF cellType = "CellTypeError" THEN "error"
    ELSE IF cellType \in {"CellTypeNumeric", "CellTypeFormula"} /\ ~parsed THEN "ParseNumber"
    ELSE IF isConditional THEN "UnsupportedCondition"
    ELSE "none"

\* SelectCase without the test for a zero value of a two-section format
SelectCaseNoZeroOfTwo(scount, isNumber, fv) ==
    IF scount < 4 /\ ~isNumber THEN "text"
    ELSE IF scount = 0 THEN "implicit"
    ELSE IF scount = 1 \/ FGtZero(fv) THEN "positive"
    ELSE IF scount >= 2 /\ FLtZero(fv) THEN "negative"
    ELSE IF scount >= 3 /\ FEqZero(fv) /\ isNumber THEN "zero"
    ELSE IF scount > 3 /\ ~isNumber THEN "textsection"
    ELSE "default"

\* the case the switch on scount takes, first match in the order of the code
SelectCase(scount, isNumber, fv) ==
    IF scount < 4 /\ ~isNumber THEN "text"
    ELSE IF scount = 0 THEN "implicit"
    ELSE IF scount = 1 \/ (scount = 2 /\ FEqZero(fv)) \/ FGtZero(fv) THEN "positive"
    ELSE IF scount >= 2 /\ FLtZero(fv) THEN "negative"
    ELSE IF scount >= 3 /\ FEqZero(fv) /\ isNumber THEN "zero"
    ELSE IF scount > 3 /\ ~isNumber THEN "textsection"
    ELSE "default"

\* a case of the switch of FormatValue calling formatValue with section idx
\* (0-based), Go value gv and numeric argument arg
applySection(ct, idx, gv, sv, arg, date1904) ==
    formatValue([ZeroFormattedValue EXCEPT !.GoValue = gv, !.selected = idx, !.fvArg = arg],
                ct.Sections[idx + 1], sv, arg, date1904)

\* the end of the first case of the switch: '-' is prepended when fv < 0
prependMinus(v, fv) ==
    IF v.panic = "" /\ FLtZero(fv)
    THEN [v EXCEPT !.FormattedValue = <<"-">> \o v.FormattedValue]
    ELSE v

\* FormatValue after its switch on cellType and its call of ParseFloat,
\* which left isNumber and fv
FormatNumberOrText(ct, sv, date1904, isNumber, fv, early, case) ==
    CASE early = "bool" ->
           [ZeroFormattedValue EXCEPT
               !.Section = Sect("BoolFormat", "NoSubType", <<>>),
               !.GoValue = [kind |-> "bool", val |-> (sv = <<"1">>)],
               !.FormattedValue = IF sv = <<"1">> THEN <<"T", "R", "U", "E">>
                                  ELSE <<"F", "A", "L", "S", "E">>]
      [] early = "error" ->
           [ZeroFormattedValue EXCEPT
               !.Section = Sect("ErrorFormat", "NoSubType", <<>>),
               !.GoValue = [kind |-> "string", val |-> sv],
               !.FormattedValue = sv]
      [] early = "ParseNumber" -> [ZeroFormattedValue EXCEPT !.err = "ParseNumber"]
      [] early = "UnsupportedCondition" ->
           [ZeroFormattedValue EXCEPT !.err = "UnsupportedCondition"]
      [] early = "none" /\ case = "text" ->
           [ZeroFormattedValue EXCEPT
               !.Section = Sect("TextFormat", "NoSubType", <<>>),
               !.GoValue = [kind |-> "string", val |-> sv],
               !.FormattedValue = sv]
      [] early = "none" /\ case = "implicit" ->
           [ZeroFormattedValue EXCEPT
               !.Section = Sect("NumberFormat", "NoSubType", <<>>),
               !.GoValue = [kind |-> "float", val |-> fv],
               !.FormattedValue = sv]
      [] early = "none" /\ case = "positive" ->
           prependMinus(applySection(ct, 0, [kind |-> "float", val |-> fv], sv, FAbs(fv),
                                     date1904), fv)
      [] early = "none" /\ case = "negative" ->
           applySection(ct, 1, [kind |-> "float", val |-> fv], sv, FAbs(fv), date1904)
      [] early = "none" /\ case = "zero" ->
           applySection(ct, 2, [kind |-> "float", val |-> fv], sv, fv, date1904)
      [] early = "none" /\ case = "textsection" ->
           applySection(ct, 3, [kind |-> "string", val |-> sv], sv, FAbs(fv), date1904)
      [] early = "none" /\ case = "default" ->
           [ZeroFormattedValue EXCEPT !.panic = "Unhandled condition"]

\* FormatValue once strconv.ParseFloat(sv) is known to give pf
FormatParsed(ct, sv, cellType, date1904, isNumber, pf) ==
    FormatNumberOrText(ct, sv, date1904, isNumber, IF isNumber THEN pf.v ELSE FZero,
                       EarlyReturn(cellType, pf.ok, ct.IsConditional),
                       SelectCase(Len(ct.Sections), isNumber, IF isNumber THEN pf.v ELSE FZero))

\* CellFormat.FormatValue applies the parsed format ct to a value
FormatValue(ct, sv, cellType, date1904) ==
    FormatParsed(ct, sv, cellType, date1904,
                 cellType \in {"CellTypeNumeric", "CellTypeFormula"}, ParseFloat(sv))

(***************************************************************************)
(* Cell: the setters and getters that go through the cell's format.  A     *)
(* Cell is a record with the fields of the Go struct that they read or     *)
(* write; cfmt is the compiled format Format() keeps, nil until first use; *)
(* panic is the panic of the call that ended the cell's life ("" if none). *)
(***************************************************************************)
\* Cell{}
ZeroCell ==
    [Value |-> <<>>, formula |-> <<>>, numFmt |-> <<>>, date1904 |-> FALSE,
     cellType |-> "CellTypeString",
     cfmt |-> [nil |-> TRUE, Sections |-> <<>>, IsConditional |-> FALSE],
     panic |-> ""]

\* the CellFormat pf that ParseFormat returned, kept in c.cfmt
Compiled(pf) ==
    [nil |-> FALSE, Sections |-> pf.Sections, IsConditional |-> pf.IsConditional]

\* c.Format(): the format compiled from numFmt on first use, and kept
Format(c) == IF c.cfmt.nil THEN Compiled(ParseFormat(c.numFmt)) ELSE c.cfmt

\* err.Error() of the two errors of FormatValue, sv being the text parsed
ErrorText(err, sv) ==
    IF err = "UnsupportedCondition"
    THEN <<"U", "n", "s", "u", "p", "p", "o", "r", "t", "e", "d", " ", "C",
         "o", "n", "d", "i", "t", "i", "o", "n">>
    ELSE <<"s", "t", "r", "c", "o", "n", "v", ".", "P", "a", "r", "s", "e",
         "F", "l", "o", "a", "t", ":", " ", "p", "a", "r", "s", "i", "n",
         "g", " ", "\"">>
           \o sv \o <<"\"", ":", " ", "i", "n", "v", "a", "l", "i", "d", " ", "s",
           "y", "n", "t", "a", "x">>

\* c.FormattedValue() once c.FormatValue() has returned v: the text of the
\* error or the display string; a panic of FormatValue goes through
CellFormattedValue(c, v) ==
    [cell |-> [c EXCEPT !.panic = v.panic],
     str |-> IF v.err # "" THEN ErrorText(v.err, c.Value) ELSE v.FormattedValue]

\* c.FormatValue() and the rest of c.FormattedValue(), ct being what
\* c.Format() returned
FormatValueWith(c, ct) ==
    CellFormattedValue([c EXCEPT !.cfmt = ct],
                       FormatValue(ct, c.Value, c.cellType, c.date1904))

\* c.FormattedValue(): the cell, its format compiled, and the string
FormattedValue(c) == FormatValueWith(c, Format(c))

\* fmt.Sprintf("%e", n): six decimals and a lower-case e
SprintfE(n) ==
    LET s == FormatFloatE(n, 6)
    IN [i \in 1..Len(s) |-> IF s[i] = "E" THEN "e" ELSE s[i]]

\* the last three assignments of SetFloatWithFormat, fv being what
\* c.FormattedValue() returned
StoreFormatted(fv) ==
    [fv.cell EXCEPT !.Value = fv.str, !.formula = <<>>, !.cellType = "CellTypeNumeric"]

\* c.SetFloatWithFormat(n, format) as a function of the cell
CellSetFloatWithFormat(c, n, format) ==
    StoreFormatted(FormattedValue([c EXCEPT !.Value = SprintfE(n), !.numFmt = format]))

(***************************************************************************)
(* Inputs.  Format strings are the concatenations of at most MaxParts      *)
(* lexemes of one of three families (date/time, numeric, top level)        *)
(* together with the format strings of the repository's tests.             *)
(***************************************************************************)
RECURSIVE Concats(_, _)
Concats(L, k) ==
    IF k = 0 THEN {<<>>}
    ELSE LET shorter == Concats(L, k - 1)
         IN shorter \cup {a \o l : a \in shorter, l \in L}

\* pieces of date/time sections
TimeLexemes ==
    { <<"h">>,
      <<"m">>,
      <<"s">>,
      <<"d">>,
      <<"y">>,
      <<"0">>,
      <<"[">>,
      <<"]">>,
      <<";">>,
      <<"x">>,
      <<"_">>,
      <<"\"">>,
      <<"[","h","]">>,
      <<"a","m","/","p","m">> }

\* pieces of numeric sections
NumLexemes ==
    { <<"#">>,
      <<"0">>,
      <<".">>,
      <<"/">>,
      <<"%">>,
      <<"E">>,
      <<"+">>,
      <<",">>,
      <<"1">>,
      <<";">>,
      <<"x">>,
      <<"\"">>,
      <<"\\">>,
      <<"*">> }

\* pieces the top level of ParseFormat decides on
TopLexemes ==
    { <<"[">>,
      <<"]">>,
      <<"[","r","e","d","]">>,
      <<"[","<","1","]">>,
      <<"G","e","n","e","r","a","l">>,
      <<"@">>,
      <<";">>,
      <<"x">>,
      <<"h">>,
      <<"#">>,
      <<"\"">>,
      <<"\\">> }

\* further format strings: minutes next to total tokens and across Space and
\* Repeat tokens, brackets inside sections, repeated numeric signs, literal
\* text before a decimal point, a '*' that ends a time section, an exponent
\* with a '-' sign
MoreFormats ==
    { <<"m","[","s","]">>,
      <<"m","*","-","[","s","s","]">>,
      <<"[","h","]","*","-","m">>,
      <<"h","_","-","m","_","-","s">>,
      <<"[","h","h","]","_","-","m","m">>,
      <<"h","*","-","m">>,
      <<"m","_","-","s">>,
      <<"a","[","h","x","]">>,
      <<"y","y","y","y","[","<","1","]","m","m">>,
      <<"0",".",".","0">>,
      <<"0","%","%">>,
      <<"0","E","0","E","0">>,
      <<"#"," ","#","/","#"," ","#","/","#">>,
      <<"0",".","0",";","0",".","0">>,
      <<"0","x",".","0">>,
      <<"h","*">>,
      <<"0","E","-","0">> }

\* format strings of tokenizeTests, timeTokenizeTests, numTokenizeTests and formatValueTests
TestFormats ==
    { <<"f","o","o">>,
      <<"h">>,
      <<"#">>,
      <<"[","h","]">>,
      <<"h","h",":","[","z","]">>,
      <<"h","h",":","[","z">>,
      <<"f","o","o"," ","[","h","]">>,
      <<"[","r","e","d","]","[","h","]">>,
      <<"[","=","5","0","]","[","h","]">>,
      <<"[","h","]",";","\"","m",";","s","\"",";",";","t","e","x","t">>,
      <<"[","h","]",";","m",";","s",";","t","e","x","t">>,
      <<"$","g","e","n","e","r","a","l","\"","f","o","o">>,
      <<"g","z">>,
      <<"h",":","m","m"," ","a","m","/","p","m">>,
      <<"h",":","m","m"," ","a","/","p">>,
      <<"m","m",":","s","s",".","0","0">>,
      <<"y","y","-","m","m","-","d","d">>,
      <<"h","h","[","x","z","]","m","m">>,
      <<"[","h","h","]",":","[","m","m","]",":","[","s","s","]">>,
      <<"h","_","^","m","*","-">>,
      <<"0",".","#">>,
      <<"0",".","0","0"," ","1","2","3">>,
      <<"#",".","#","#","E","+","0","0">>,
      <<"#",".","#","#"," ","0","0","0","/","0","0","0">>,
      <<"f","o","o"," ","0",".","#"," ","b","a","r">>,
      <<"#"," ","#","/","1","6">>,
      <<"#",".","#",";","(","#",".","#",")",";","\"","i","s","z","e","r","o","\"",";","\"","t","e","x","t"," ",">","\"","@","\"","<"," ","h","e","r","e","\"">>,
      <<"m","/","d","/","y","y","y">>,
      <<"d","d","d"," ","m","m","m","m","m"," ","y","y">>,
      <<"#"," ","#","/","#","%">> }

Formats ==
    Concats(TimeLexemes, MaxParts) \cup Concats(NumLexemes, MaxParts)
        \cup Concats(TopLexemes, MaxParts) \cup TestFormats \cup MoreFormats

(***************************************************************************)
(* State                                                                   *)
(***************************************************************************)
VARIABLES
    format,     \* the format string handed to ParseFormat
    parser,     \* the state of the running ParseFormat call
    sv,         \* the raw cell text handed to FormatValue
    cellType,   \* the cell type handed to FormatValue
    date1904,   \* the epoch flag handed to FormatValue
    result,     \* what FormatValue returned
    returned,   \* has FormatValue returned?
    fr,         \* the state of the running frap call
    cell,       \* the Cell the setters and getters are called on
    call,       \* the last call made on the cell, what it returned, and the call before
    rd          \* a call of readToChar: its arguments and what it returned

vars == <<format, parser, sv, cellType, date1904, result, returned, fr, cell, call, rd>>

\* the compiled format ParseFormat returned
cfmt == [Sections |-> parser.sets, IsConditional |-> parser.conditional]

NoCall ==
    /\ sv = <<>>
    /\ cellType = "CellTypeString"
    /\ date1904 = FALSE
    /\ result = ZeroFormattedValue
    /\ returned = FALSE

NoFrap == fr = [frapStart(FZero, 1) EXCEPT !.pc = "idle"]

\* a call on a cell: the method, its float and text arguments, what String
\* or Float returned, and the method and arguments of the call before it
CellCall(op, arg, text, ret, ok, val, before) ==
    [op |-> op, arg |-> arg, text |-> text, ret |-> ret, ok |-> ok, val |-> val,
     prev |-> [op |-> before.op, arg |-> before.arg, text |-> before.text]]

NoCell ==
    /\ cell = ZeroCell
    /\ call = CellCall("", FZero, <<>>, <<>>, TRUE, FZero,
                       [op |-> "", arg |-> FZero, text |-> <<>>])

\* a call of readToChar(input, ch) and the pair it returned
ReadCall(input, ch, txt, rem, isNil, done) ==
    [input |-> input, ch |-> ch, txt |-> txt, rem |-> rem, isNil |-> isNil, done |-> done]

NoRead == rd = ReadCall(<<>>, "\"", <<>>, <<>>, TRUE, FALSE)

(***************************************************************************)
(* The parser, one loop iteration at a time                                *)
(***************************************************************************)
InitParse ==
    /\ format \in Formats
    /\ parser = ParseStart(format)
    /\ NoCall
    /\ NoFrap
    /\ NoCell
    /\ NoRead

\* an iteration of the loop of ParseFormat
ParseFormatLoop ==
    /\ parser.pc = "top"
    /\ parser.panic = ""
    /\ parser' = ParseStep(parser)
    /\ UNCHANGED <<format, sv, cellType, date1904, result, returned, fr, cell, call, rd>>

\* an iteration of the loop of tokenizeTime, called by ParseFormat
TokenizeTimeLoop ==
    /\ parser.pc = "time"
    /\ parser.panic = ""
    /\ parser' = ParseStep(parser)
    /\ UNCHANGED <<format, sv, cellType, date1904, result, returned, fr, cell, call, rd>>

\* an iteration of the loop of tokenizeNumeric, called by ParseFormat
TokenizeNumericLoop ==
    /\ parser.pc = "num"
    /\ parser.panic = ""
    /\ parser' = ParseStep(parser)
    /\ UNCHANGED <<format, sv, cellType, date1904, result, returned, fr, cell, call, rd>>

NextParse == ParseFormatLoop \/ TokenizeTimeLoop \/ TokenizeNumericLoop

SpecParse == InitParse /\ [][NextParse]_vars

(***************************************************************************)
(* FormatValue applied to what ParseFormat returned.  The format strings   *)
(* are at most MaxSections section bodies joined by ';', and a list of     *)
(* further format strings; the raw values are numbers of either sign, both *)
(* zeroes, NaN and a text that is not a number.                            *)
(***************************************************************************)
\* a numeric, a general, a time and a text section body
SectionBodies ==
    { <<"0">>,
      <<"G","e","n","e","r","a","l">>,
      <<"h">>,
      <<"@">> }

RECURSIVE JoinedSections(_)
JoinedSections(k) ==
    IF k = 1 THEN SectionBodies
    ELSE LET shorter == JoinedSections(k - 1)
         IN shorter \cup {a \o <<";">> \o b : a \in shorter, b \in SectionBodies}

\* conditional formats, and formats of the numeric and time renderers
RenderFormats ==
    { <<>>,
      <<"[","<","1","]","0">>,
      <<"[",">","0","]","G","e","n","e","r","a","l",";","@">>,
      <<"[","=","1","]","h",";","0",";","0",";","@">>,
      <<"0","E">>,
      <<"0",".","0">>,
      <<"#","/","#">>,
      <<"#"," ","#","/","#">>,
      <<"#","/","1","6">>,
      <<"[","h","h","h","h","h","h","h","h","h","h","h","h","h","h","h","h","h","h","h","h","h","h","]">>,
      <<"0",".","0","0","E","+","0","0">>,
      <<"h",":","m","m"," ","a","m","/","p","m">>,
      <<"y","y","y","y","-","m","m","-","d","d">>,
      <<"m","m",":","s","s",".","0">>,
      <<"[","h","]",":","m","m">>,
      <<"[","h","]",":","m","m",":","s","s">>,
      <<"#",",","#","#","0",".","0">>,
      <<"0","%">>,
      <<"\"","x","\"","@">>,
      <<"0","_","x">>,
      <<"0","*","x">>,
      <<"x","0","_","y">>,
      <<"[","r","e","d","]","0">>,
      <<"#",".","#",";","(","#",".","#",")">>,
      <<"0",";",";","0">>,
      <<"x">>,
      <<"h","h">>,
      <<"h"," ","a","m","/","p","m">>,
      <<"h","h"," ","A","/","P">>,
      <<"d">>,
      <<"d","d">>,
      <<"d","d","d">>,
      <<"d","d","d","d">>,
      <<"d","d","d","d","d">>,
      <<"d","d","d"," ","d">>,
      <<"h","_","x">>,
      <<"h","*","x",":","m","m">>,
      <<"x","@","h">>,
      <<"x","[","r","e","d","]","h">> }

\* raw cell values
Values ==
    { <<"1">>,
      <<"-","1",".","5">>,
      <<"0",".","2","5">>,
      <<"0",".","0","8","3","3","3">>,
      <<"1",".","9","6">>,
      <<"0">>,
      <<"-","0">>,
      <<"N","a","N">>,
      <<"f","o","o">> }

InitFormat ==
    /\ format \in JoinedSections(MaxSections) \cup RenderFormats
    /\ parser = ParseStart(format)
    /\ NoCall
    /\ NoFrap
    /\ NoCell
    /\ NoRead

\* a call of FormatValue on the compiled format
CallFormatValue ==
    /\ parser.pc = "done"
    /\ ~returned
    /\ \E v \in Values, t \in CellTypes, e \in BOOLEAN :
          /\ sv' = v
          /\ cellType' = t
          /\ date1904' = e
          /\ result' = FormatValue(cfmt, v, t, e)
    /\ returned' = TRUE
    /\ UNCHANGED <<format, parser, fr, cell, call, rd>>

NextFormat == NextParse \/ CallFormatValue

SpecFormat == InitFormat /\ [][NextFormat]_vars

(***************************************************************************)
(* Section selection                                                       *)
(***************************************************************************)
\* C1: for a format that is not conditional and has n sections, FormatValue
\* selects, for a numeric cell with value v, section 0 when v > 0, section 0
\* (n = 1) or 1 (n >= 2) when v < 0, section 0 (n <= 2) or 2 (n >= 3) when
\* v = 0; for a textual cell section 3 when n >= 4, and when n < 4 it renders
\* no section and returns sv with section type Text; a numeric cell with
\* n = 0 gets sv back with section type Number; no section of index 4 or
\* more is ever selected.
C1_SectionSelection ==
    (returned /\ ~cfmt.IsConditional) =>
        LET n == Len(cfmt.Sections)
            numeric == cellType \in {"CellTypeNumeric", "CellTypeFormula"}
            textual == cellType \in {"CellTypeString", "CellTypeInline"}
            pf == ParseFloat(sv)
            number == numeric /\ pf.ok
            selects(i) == /\ result.selected = i
                          /\ result.err = ""
                          /\ result.panic = "" => result.Section = cfmt.Sections[i + 1]
            verbatim(type) == /\ result.selected = 0 - 1
                              /\ result.err = ""
                              /\ result.panic = ""
                              /\ result.FormattedValue = sv
                              /\ result.Section.Type = type
        IN /\ (number /\ n >= 1 /\ FGtZero(pf.v)) => selects(0)
           /\ (number /\ n = 1 /\ FLtZero(pf.v)) => selects(0)
           /\ (number /\ n >= 2 /\ FLtZero(pf.v)) => selects(1)
           /\ (number /\ n \in {1, 2} /\ FEqZero(pf.v)) => selects(0)
           /\ (number /\ n >= 3 /\ FEqZero(pf.v)) => selects(2)
           /\ (textual /\ n >= 4) => selects(3)
           /\ (textual /\ n < 4) => verbatim("TextFormat")
           /\ (number /\ n = 0) => verbatim("NumberFormat")
           /\ result.selected < 4

\* a zero in a numeric cell under a five-section format got section 2
C1_Witness ==
    /\ returned
    /\ ~cfmt.IsConditional
    /\ Len(cfmt.Sections) = 5
    /\ cellType = "CellTypeNumeric"
    /\ ParseFloat(sv).ok
    /\ FEqZero(ParseFloat(sv).v)
    /\ result.selected = 2
    /\ result.Section = cfmt.Sections[3]

(***************************************************************************)
(* Totality of the parser                                                  *)
(***************************************************************************)
\* C4: ParseFormat is total: no call panics (in particular "Unhandled
\* character token" is never raised), every iteration of the top-level loop
\* and of the time, numeric and common sub-parsers leaves strictly less
\* input than it found, and a call that has not returned is in one of the
\* three loops with input left to read; the input being finite, every call
\* returns.
C4_ParseTotal ==
    /\ [](parser.panic = "")
    /\ [](parser.pc # "done" => parser.pc \in {"top", "time", "num"} /\ Len(parser.rem) > 0)
    /\ [][Len(parser'.rem) < Len(parser.rem)]_parser

\* a call that went through the time sub-parser and, for an unterminated
\* quote, through tokenizeCommon has returned its section
C4_Witness ==
    /\ parser.pc = "done"
    /\ parser.panic = ""
    /\ format = <<"h", "\"", "0">>
    /\ Len(parser.sets) = 1
    /\ Len(parser.sets[1].Tokens) = 2

(***************************************************************************)
(* Sign handling                                                           *)
(***************************************************************************)
\* C2: when FormatValue renders a section for a numeric cell with value v,
\* the renderer is given |v|; the display string is '-' followed by the
\* rendering of |v| when section 0 of a one-section format is applied to
\* v < 0, exactly the rendering of |v| by section 1 when v < 0 and n >= 2,
\* and the rendering of |v| with nothing prepended when v >= 0.
C2_SignHandling ==
    (/\ returned
     /\ cellType \in {"CellTypeNumeric", "CellTypeFormula"}
     /\ result.selected >= 0
     /\ result.panic = ""
     /\ ~ParseFloat(sv).v.nan) =>
        LET n == Len(cfmt.Sections)
            v == ParseFloat(sv).v
            rendering(i) == formatValue(ZeroFormattedValue, cfmt.Sections[i + 1], sv,
                                        FAbs(v), date1904).FormattedValue
        IN /\ result.fvArg = FAbs(v)
           /\ (FLtZero(v) /\ n = 1) => result.FormattedValue = <<"-">> \o rendering(0)
           /\ (FLtZero(v) /\ n >= 2) => result.FormattedValue = rendering(1)
           /\ ~FLtZero(v) => result.FormattedValue = rendering(result.selected)

(***************************************************************************)
(* Conditional formats                                                     *)
(***************************************************************************)
\* C3 as claimed: for a conditional format FormatValue fails with
\* UnsupportedCondition whatever the cell kind and the raw value are.
C3_GateBeforeBypasses ==
    (returned /\ cfmt.IsConditional) => result.err = "UnsupportedCondition"

\* C3 as the code has it: for a conditional format FormatValue renders no
\* section; a Boolean cell gets TRUE or FALSE and an Error cell gets sv back,
\* both without an error; a Numeric or Formula cell whose sv is not a float
\* fails with ParseNumber; every other call (String, Inline, and Numeric or
\* Formula with a float) fails with UnsupportedCondition.
C3_GateAfterBypasses ==
    (returned /\ cfmt.IsConditional) =>
        /\ result.selected = 0 - 1
        /\ result.panic = ""
        /\ CASE cellType = "CellTypeBool" ->
                  /\ result.err = ""
                  /\ result.Section.Type = "BoolFormat"
                  /\ result.FormattedValue = IF sv = <<"1">> THEN <<"T", "R", "U", "E">>
                                             ELSE <<"F", "A", "L", "S", "E">>
             [] cellType = "CellTypeError" ->
                  /\ result.err = ""
                  /\ result.Section.Type = "ErrorFormat"
                  /\ result.FormattedValue = sv
             [] cellType \in {"CellTypeNumeric", "CellTypeFormula"} /\ ~ParseFloat(sv).ok ->
                  result.err = "ParseNumber"
             [] OTHER -> result.err = "UnsupportedCondition"

\* a Boolean cell under a conditional format came back as TRUE
C3_Witness ==
    /\ returned
    /\ cfmt.IsConditional
    /\ cellType = "CellTypeBool"
    /\ sv = <<"1">>
    /\ result.err = ""
    /\ result.FormattedValue = <<"T", "R", "U", "E">>

(***************************************************************************)
(* Failures of FormatValue                                                 *)
(***************************************************************************)
\* C5: a call of FormatValue on a format that ParseFormat returned, for any
\* cell kind, raw value and epoch flag, either returns a value or fails with
\* ParseNumber (only when the kind is numeric and sv is not a float) or with
\* UnsupportedCondition (only when the format is conditional); it never
\* panics, neither in the selector nor in a renderer.
C5_OnlyTwoErrors ==
    returned =>
        /\ result.panic \notin {"slice bounds out of range", "integer divide by zero",
                                "Unhandled condition", "Unknown token type"}
        /\ result.err \in {"", "ParseNumber", "UnsupportedCondition"}
        /\ result.err = "ParseNumber" =>
              /\ cellType \in {"CellTypeNumeric", "CellTypeFormula"}
              /\ ~ParseFloat(sv).ok
        /\ result.err = "UnsupportedCondition" => cfmt.IsConditional

(***************************************************************************)
(* Time sections                                                           *)
(***************************************************************************)
\* C6: in every Time section the parser produced, a token of an 'm' run is
\* Minute if and only if the nearest token before it that is not Literal,
\* Space or Repeat is Hour or TotalHours, or the nearest such token after it
\* is Second or TotalSeconds; otherwise it is Month.
C6_MonthOrMinute ==
    \A k \in 1..Len(parser.sets) :
        LET T == parser.sets[k].Tokens
            skipped == {"TokLiteral", "TokSpace", "TokRepeat"}
            hourBefore(i) == \E j \in 1..(i - 1) :
                                /\ T[j].Type \in {"TokHour", "TokTotalHours"}
                                /\ \A l \in (j + 1)..(i - 1) : T[l].Type \in skipped
            secondAfter(i) == \E j \in (i + 1)..Len(T) :
                                 /\ T[j].Type \in {"TokSecond", "TokTotalSeconds"}
                                 /\ \A l \in (i + 1)..(j - 1) : T[l].Type \in skipped
        IN parser.sets[k].Type = "TimeFormat" =>
              \A i \in 1..Len(T) :
                  T[i].Type \in {"TokMonth", "TokMinute"} =>
                      (T[i].Type = "TokMinute" <=> (hourBefore(i) \/ secondAfter(i)))

\* the 'm' of "hxm" became a Minute across the literal x
C6_Witness ==
    /\ parser.pc = "done"
    /\ format = <<"h", "x", "m">>
    /\ Len(parser.sets) = 1
    /\ parser.sets[1].Type = "TimeFormat"
    /\ parser.sets[1].Tokens[2].Type = "TokLiteral"
    /\ parser.sets[1].Tokens[3].Type = "TokMinute"

\* C7: the sub-type of every Time section the parser produced is a function
\* of its tokens: Duration if a TotalHours, TotalMinutes or TotalSeconds
\* token is present; otherwise DateTime if a date-bearing token (Year,
\* Month, Day) and a time-bearing token (Hour, Minute, Second, SecFraction)
\* are present; otherwise Date if only date-bearing ones, Time if only
\* time-bearing ones, and None if neither.
C7_SubTypeFromTokens ==
    \A k \in 1..Len(parser.sets) :
        LET T == parser.sets[k].Tokens
            has(types) == \E i \in 1..Len(T) : T[i].Type \in types
            total == has({"TokTotalHours", "TokTotalMinutes", "TokTotalSeconds"})
            date == has({"TokYear", "TokMonth", "TokDay"})
            time == has({"TokHour", "TokMinute", "TokSecond", "TokSecFraction"})
        IN parser.sets[k].Type = "TimeFormat" =>
              parser.sets[k].SubType =
                  IF total THEN "Duration"
                  ELSE IF date /\ time THEN "DateTime"
                  ELSE IF date THEN "Date"
                  ELSE IF time THEN "Time"
                  ELSE "NoSubType"

\* "[h]dh" has a total, a date and a time token and is a Duration
C7_Witness ==
    /\ parser.pc = "done"
    /\ format = <<"[", "h", "]", "d", "h">>
    /\ Len(parser.sets) = 1
    /\ Len(parser.sets[1].Tokens) = 3
    /\ parser.sets[1].SubType = "Duration"

(***************************************************************************)
(* Token lists                                                             *)
(***************************************************************************)
\* C8: no section that ParseFormat returned has two adjacent Literal tokens.
C8_NoAdjacentLiterals ==
    \A k \in 1..Len(parser.sets) :
        LET T == parser.sets[k].Tokens
        IN \A i \in 1..(Len(T) - 1) :
              ~(T[i].Type = "TokLiteral" /\ T[i + 1].Type = "TokLiteral")

\* C9: every section that ParseFormat returned has at most one NumDecSign
\* token, at most one NumExp token, at most one NumFracSign token and at
\* most one NumPct token.
C9_AtMostOneSign ==
    \A k \in 1..Len(parser.sets) :
        LET T == parser.sets[k].Tokens
        IN \A type \in {"TokNumDecSign", "TokNumExp", "TokNumFracSign", "TokNumPct"} :
              Cardinality({i \in 1..Len(T) : T[i].Type = type}) <= 1

(***************************************************************************)
(* frap, one loop iteration at a time                                      *)
(***************************************************************************)
FrapValues == {Fl(FALSE, p, q) : p \in 0..(MaxFrapInt * MaxFrapQ), q \in 1..MaxFrapQ}

InitFrap ==
    /\ format = <<>>
    /\ parser = ParseStart(<<>>)
    /\ NoCall
    /\ NoCell
    /\ NoRead
    /\ \E x \in FrapValues, D \in 1..MaxFrapDenom :
          /\ x.n <= MaxFrapInt * x.d
          /\ fr = frapStart(x, D)

\* the test of the loop of frap and, when it holds, one run of its body
FrapLoop ==
    /\ fr.pc = "loop"
    /\ fr' = frapIter(fr)
    /\ UNCHANGED <<format, parser, sv, cellType, date1904, result, returned, cell, call, rd>>

\* the code of frap after its loop
FrapReturn ==
    /\ fr.pc = "post"
    /\ fr' = frapEnd(fr)
    /\ UNCHANGED <<format, parser, sv, cellType, date1904, result, returned, cell, call, rd>>

NextFrap == FrapLoop \/ FrapReturn

SpecFrap == InitFrap /\ [][NextFrap]_vars

\* C10: for x >= 0 and D >= 1, frap(x, D) returns num/den with
\* 1 <= den <= D that is at least as close to x as every p/q with
\* 1 <= q <= D, and among equally close fractions has the smallest
\* denominator; so an x that is a fraction with denominator <= D, x = 0
\* included, is returned exactly.
C10_BestApproximation ==
    fr.pc = "done" =>
        LET x == fr.n
            D == fr.maxDenom
            abs(i) == IF i < 0 THEN 0 - i ELSE i
            \* |x - a/b| as a multiple of 1/(x.d * b)
            dist(a, b) == abs(x.n * b - a * x.d)
        IN /\ fr.panic = ""
           /\ 1 <= fr.denom
           /\ fr.denom <= D
           /\ \A q \in 1..D : \A p \in 0..((MaxFrapInt + 1) * q) :
                 /\ dist(fr.num, fr.denom) * q <= dist(p, q) * fr.denom
                 /\ dist(fr.num, fr.denom) * q = dist(p, q) * fr.denom => fr.denom <= q

(***************************************************************************)
(* Brackets, quotes and separators                                         *)
(***************************************************************************)
\* C11: a '[' of the format string with no ']' after it becomes a literal
\* '[' of the token list, at the top level, in a time section and in a
\* numeric section alike, and is never dropped: for a format with no ']'
\* (and no quote, escape, '_' or '*', which take the next character as
\* their own), the Literal tokens ParseFormat returned hold as many '['
\* as the format string does.
C11_StrayBracketLiteral ==
    (/\ parser.pc = "done"
     /\ \A i \in 1..Len(format) : format[i] \notin {"]", "\"", "\\", "_", "*"}) =>
        LET inFormat == {i \in 1..Len(format) : format[i] = "["}
            inLiterals == {<<k, i, j>> \in (1..Len(parser.sets)) \X (1..Len(format))
                                            \X (1..Len(format)) :
                              /\ i <= Len(parser.sets[k].Tokens)
                              /\ parser.sets[k].Tokens[i].Type = "TokLiteral"
                              /\ j <= Len(parser.sets[k].Tokens[i].Data)
                              /\ parser.sets[k].Tokens[i].Data[j] = "["}
        IN Cardinality(inLiterals) = Cardinality(inFormat)

\* C12: a '"' of the format string with no closing '"' consumes the rest of
\* the input, and everything after it is emitted as literal text, nothing
\* of it interpreted and nothing lost: for a format with exactly one '"',
\* not taken by a '\', '_', '*' or '[' before it, and with input after it,
\* the last token of the last section ParseFormat returned is a Literal
\* whose text ends with all that follows the quote.
C12_UnterminatedQuote ==
    \A q \in 1..(Len(format) - 1) :
        (/\ parser.pc = "done"
         /\ \A i \in 1..Len(format) : (format[i] = "\"") <=> (i = q)
         /\ \A i \in 1..(q - 1) : format[i] \notin {"\\", "_", "*", "["}) =>
            LET tail == Drop(format, q)
                n == Len(parser.sets)
                T == parser.sets[n].Tokens
                last == T[Len(T)]
            IN /\ n > 0
               /\ Len(T) > 0
               /\ last.Type = "TokLiteral"
               /\ Len(last.Data) >= Len(tail)
               /\ Drop(last.Data, Len(last.Data) - Len(tail)) = tail

\* C13: for a format string with k >= 1 separators ';' (no quote, escape,
\* '_', '*' or bracket in it, so every ';' is a separator), ParseFormat
\* returns k + 1 sections in source order, and a section with no content
\* (the one after a trailing ';' and one after a time or numeric section
\* included) is a section of type Text with no tokens.
C13_SectionsPerSeparator ==
    (/\ parser.pc = "done"
     /\ \E i \in 1..Len(format) : format[i] = ";"
     /\ \A i \in 1..Len(format) : format[i] \notin {"\"", "\\", "_", "*", "[", "]"}) =>
        LET seps == {i \in 1..Len(format) : format[i] = ";"}
            k == Cardinality(seps)
            \* the position of the j-th separator, 0 and Len + 1 at the ends
            sep(j) == IF j = 0 THEN 0
                      ELSE IF j = k + 1 THEN Len(format) + 1
                      ELSE CHOOSE i \in seps : Cardinality({x \in seps : x <= i}) = j
        IN /\ Len(parser.sets) = k + 1
           /\ \A j \in 1..(k + 1) :
                 sep(j) = sep(j - 1) + 1 =>
                     /\ parser.sets[j].Type = "TextFormat"
                     /\ parser.sets[j].Tokens = <<>>

(***************************************************************************)
(* The typed value of FormatValue                                          *)
(***************************************************************************)
\* C14: the typed value FormatValue returns is determined by the cell kind
\* and the applied section: for a Boolean cell the boolean sv = "1", with
\* display TRUE or FALSE and section type Boolean; for an Error cell and for
\* a textual cell the string sv; for a numeric cell the signed float v when
\* the applied section is Number or Text or when there is no section, the
\* timestamp rounded to the resolution of the format when the applied
\* section is Time with a sub-type other than Duration, and the duration
\* when the sub-type is Duration.  The section returned is the section that
\* was applied.
C14_TypedValue ==
    (returned /\ result.err = "" /\ result.panic = "") =>
        LET numeric == cellType \in {"CellTypeNumeric", "CellTypeFormula"}
            v == ParseFloat(sv).v
            applied == cfmt.Sections[result.selected + 1]
            is(kind) == result.GoValue.kind = kind
            res == formatTimeRes(applied.Tokens, 1, TicksPerSecond)
        IN /\ result.selected >= 0 => result.Section = applied
           /\ cellType = "CellTypeBool" =>
                 /\ is("bool")
                 /\ result.GoValue.val = (sv = <<"1">>)
                 /\ result.FormattedValue = IF sv = <<"1">> THEN <<"T", "R", "U", "E">>
                                            ELSE <<"F", "A", "L", "S", "E">>
                 /\ result.Section.Type = "BoolFormat"
           /\ cellType \in {"CellTypeError", "CellTypeString", "CellTypeInline"} =>
                 /\ is("string")
                 /\ result.GoValue.val = sv
           /\ (numeric /\ (result.selected < 0
                           \/ applied.Type \in {"NumberFormat", "TextFormat"})) =>
                 /\ is("float")
                 /\ result.GoValue.val = v
           /\ (numeric /\ result.selected >= 0 /\ applied.Type = "TimeFormat"
                       /\ applied.SubType # "Duration") =>
                 /\ is("time")
                 /\ result.GoValue.val =
                        TimeRound(TimeFromExcelTime(FAbs(v), date1904), res)
           /\ (numeric /\ result.selected >= 0 /\ applied.Type = "TimeFormat"
                       /\ applied.SubType = "Duration") =>
                 /\ is("duration")
                 /\ result.GoValue.val = DurationFromExcelTime(FAbs(v))

(***************************************************************************)
(* A Cell under its setters and getters.  It starts as Cell{}; floats,     *)
(* integers, texts and format strings are drawn from small sets.           *)
(***************************************************************************)
CellFloats == {Fl(FALSE, 128, 125), Fl(TRUE, 5, 2)}

CellStrings == {<<"a">>, <<"1", "2">>}

\* a four-section and a conditional format, and one whose exponent has no
\* digits
CellFormats ==
    { <<"0", ";", "0", ";", "0", ";", "x">>, <<"[", "<", "1", "]", "0">>, <<"0", "E">> }

InitCell ==
    /\ format = <<>>
    /\ parser = ParseStart(<<>>)
    /\ NoCall
    /\ NoFrap
    /\ NoCell
    /\ NoRead

SetString ==
    /\ cell.panic = ""
    /\ \E s \in CellStrings :
          /\ cell' = [cell EXCEPT !.Value = s, !.formula = <<>>,
                                  !.cellType = "CellTypeString"]
          /\ call' = CellCall("SetString", FZero, s, <<>>, TRUE, FZero, call)
    /\ UNCHANGED <<format, parser, sv, cellType, date1904, result, returned, fr, rd>>

\* String() returns r.str, r being what FormattedValue() returned
StringReturns(r) ==
    /\ cell' = r.cell
    /\ call' = CellCall("String", FZero, <<>>, r.str, TRUE, FZero, call)

\* String() and FormattedValue(), which it calls
String ==
    /\ cell.panic = ""
    /\ StringReturns(FormattedValue(cell))
    /\ UNCHANGED <<format, parser, sv, cellType, date1904, result, returned, fr, rd>>

SetFloat ==
    /\ cell.panic = ""
    /\ \E n \in CellFloats :
          /\ cell' = CellSetFloatWithFormat(cell, n,
                         <<"0", ".", "0", "0", "e", "+", "0", "0">>)
          /\ call' = CellCall("SetFloat", n, <<>>, <<>>, TRUE, FZero, call)
    /\ UNCHANGED <<format, parser, sv, cellType, date1904, result, returned, fr, rd>>

SetFloatWithFormat ==
    /\ cell.panic = ""
    /\ \E n \in CellFloats, f \in CellFormats :
          /\ cell' = CellSetFloatWithFormat(cell, n, f)
          /\ call' = CellCall("SetFloatWithFormat", n, f, <<>>, TRUE, FZero, call)
    /\ UNCHANGED <<format, parser, sv, cellType, date1904, result, returned, fr, rd>>

\* Float() returns NaN with the error of strconv.ParseFloat
Float ==
    /\ cell.panic = ""
    /\ call' = CellCall("Float", FZero, <<>>, <<>>, ParseFloat(cell.Value).ok,
                        IF ParseFloat(cell.Value).ok THEN ParseFloat(cell.Value).v ELSE NaN,
                        call)
    /\ UNCHANGED <<format, parser, sv, cellType, date1904, result, returned, fr, cell, rd>>

\* SetInt and SetInt64, whose bodies are the same
SetInt ==
    /\ cell.panic = ""
    /\ \E n \in {1024} :
          /\ cell' = [cell EXCEPT !.Value = IntToStr(n), !.numFmt = <<"0">>,
                                  !.formula = <<>>, !.cellType = "CellTypeNumeric"]
          /\ call' = CellCall("SetInt", Fl(FALSE, n, 1), <<>>, <<>>, TRUE, FZero, call)
    /\ UNCHANGED <<format, parser, sv, cellType, date1904, result, returned, fr, rd>>

SetBool ==
    /\ cell.panic = ""
    /\ \E b \in BOOLEAN :
          /\ cell' = [cell EXCEPT !.Value = IF b THEN <<"1">> ELSE <<"0">>,
                                  !.cellType = "CellTypeBool"]
          /\ call' = CellCall("SetBool", FZero, <<>>, <<>>, b, FZero, call)
    /\ UNCHANGED <<format, parser, sv, cellType, date1904, result, returned, fr, rd>>

SetFormula ==
    /\ cell.panic = ""
    /\ \E formula \in CellStrings :
          /\ cell' = [cell EXCEPT !.formula = formula, !.cellType = "CellTypeFormula"]
          /\ call' = CellCall("SetFormula", FZero, formula, <<>>, TRUE, FZero, call)
    /\ UNCHANGED <<format, parser, sv, cellType, date1904, result, returned, fr, rd>>

NextCell ==
    \/ SetString
    \/ String
    \/ SetFloat
    \/ SetFloatWithFormat
    \/ Float
    \/ SetInt
    \/ SetBool
    \/ SetFormula

SpecCell == InitCell /\ [][NextCell]_vars

\* C15: in every state a cell reaches through its setters, String and
\* FormattedValue, SetFloat(n) returns, Float() called next returns n with
\* no error, and Type() is then CellTypeNumeric.
C15_FloatRoundTrip ==
    /\ call.op = "SetFloat" => cell.panic = ""
    /\ (call.op = "Float" /\ call.prev.op = "SetFloat") =>
          /\ call.ok
          /\ call.val = call.prev.arg
          /\ cell.cellType = "CellTypeNumeric"

\* C16: in every state a cell reaches through its setters (SetFloatWithFormat
\* with any format string included), String and FormattedValue, SetString(s)
\* followed by String() returns s, and Type() is then CellTypeString.
C16_StringRoundTrip ==
    (call.op = "String" /\ call.prev.op = "SetString") =>
        /\ cell.panic = ""
        /\ call.ret = call.prev.text
        /\ cell.cellType = "CellTypeString"

(***************************************************************************)
(* fmtThou applied to the digit strings of at most MaxThouDigits digits    *)
(***************************************************************************)
MaxThouDigits == 7

InitThou ==
    /\ format = <<>>
    /\ parser = ParseStart(<<>>)
    /\ sv \in UNION {[1..n -> {"0", "1", "9"}] : n \in 0..MaxThouDigits}
    /\ cellType = "CellTypeString"
    /\ date1904 = FALSE
    /\ result = ZeroFormattedValue
    /\ returned = FALSE
    /\ NoFrap
    /\ NoCell
    /\ NoRead

\* a call of fmtThou on the digit string sv
CallFmtThou ==
    /\ ~returned
    /\ result' = [ZeroFormattedValue EXCEPT !.FormattedValue = fmtThou(sv)]
    /\ returned' = TRUE
    /\ UNCHANGED <<format, parser, sv, cellType, date1904, fr, cell, call, rd>>

SpecThou == InitThou /\ [][CallFmtThou]_vars

\* C17: for every digit string d, the empty one included, fmtThou(d) is d
\* with a ',' before every group of three digits counted from the right and
\* no leading comma: taking the commas out of the result gives d back (so
\* distinct inputs give distinct outputs), a character of the result is a
\* comma exactly when its place counted from the right is a multiple of
\* four (so every group after the first has exactly three digits), and the
\* result does not begin with a comma (so the first group has one to three).
C17_ThousandsGrouping ==
    returned =>
        LET out == result.FormattedValue
            notComma(c) == c # ","
        IN /\ SelectSeq(out, notComma) = sv
           /\ \A i \in 1..Len(out) : (out[i] = ",") <=> ((Len(out) - i + 1) % 4 = 0)
           /\ Len(out) > 0 => out[1] # ","
           /\ Len(sv) = 0 => out = <<>>

\* a string of seven digits got its two commas
C17_Witness ==
    /\ returned
    /\ sv = <<"1", "0", "1", "9", "9", "0", "0">>
    /\ result.FormattedValue = <<"1", ",", "0", "1", "9", ",", "9", "0", "0">>

(***************************************************************************)
(* Time rendering                                                          *)
(***************************************************************************)
\* C18: in Time rendering an Hour token of size 1 renders the hour without
\* zero padding and an Hour token of any other size renders it zero-padded
\* to two digits, in 24-hour style (no AMPM token in the section) and in
\* 12-hour style (an AMPM token present) alike: a section of Hour and
\* Literal tokens, with or without an AMPM token at its end, applied to a
\* numeric cell, displays these renderings and the literal texts in the
\* order of the tokens, followed by the text of the AMPM token.
C18_HourPadding ==
    (/\ returned
     /\ cellType \in {"CellTypeNumeric", "CellTypeFormula"}
     /\ result.err = ""
     /\ result.panic = ""
     /\ result.selected >= 0
     /\ result.Section.Type = "TimeFormat") =>
        LET T == result.Section.Tokens
            v == ParseFloat(sv).v
            ampm == T[Len(T)].Type = "TokAMPM"
            hours == IF ampm THEN SubSeq(T, 1, Len(T) - 1) ELSE T
            tf == TimeFields(TimeRound(TimeFromExcelTime(FAbs(v), date1904), TicksPerSecond),
                             date1904)
            hour == IF ampm THEN Hour12(tf.hour) ELSE tf.hour
            piece(token) == IF token.Type = "TokLiteral" THEN token.Data
                            ELSE IF token.Size = 1 THEN IntToStr(hour)
                            ELSE ZeroPad(IntToStr(hour), 2)
            RECURSIVE pieces(_)
            pieces(i) == IF i > Len(hours) THEN <<>> ELSE piece(hours[i]) \o pieces(i + 1)
            out == IF FLtZero(v) /\ result.selected = 0
                   THEN Tail(result.FormattedValue) ELSE result.FormattedValue
        IN (/\ \E i \in 1..Len(hours) : hours[i].Type = "TokHour"
            /\ \A i \in 1..Len(hours) : hours[i].Type \in {"TokHour", "TokLiteral"}) =>
               /\ Take(out, Len(pieces(1))) = pieces(1)
               /\ Len(out) = Len(pieces(1)) + (IF ampm THEN T[Len(T)].Size ELSE 0)

\* C19 as claimed: a Day token renders by its size: size 1 the day of the
\* month unpadded, size 2 the day of the month zero-padded to two digits,
\* size 3 and size 5 the three-letter abbreviation of the weekday, any other
\* size the full name of the weekday; a section of Day and Literal tokens,
\* applied to a numeric cell, displays these renderings and the literal
\* texts in the order of the tokens.
C19_DayBySizeFive ==
    (/\ returned
     /\ cellType \in {"CellTypeNumeric", "CellTypeFormula"}
     /\ result.err = ""
     /\ result.panic = ""
     /\ result.selected >= 0
     /\ result.Section.Type = "TimeFormat") =>
        LET T == result.Section.Tokens
            v == ParseFloat(sv).v
            tf == TimeFields(TimeRound(TimeFromExcelTime(FAbs(v), date1904), TicksPerSecond),
                             date1904)
            piece(token) == CASE token.Type = "TokLiteral" -> token.Data
                              [] token.Type # "TokLiteral" /\ token.Size = 1 -> IntToStr(tf.day)
                              [] token.Type # "TokLiteral" /\ token.Size = 2 ->
                                   ZeroPad(IntToStr(tf.day), 2)
                              [] token.Type # "TokLiteral" /\ token.Size \in {3, 5} ->
                                   Take(DayNames[tf.weekday + 1], 3)
                              [] OTHER -> DayNames[tf.weekday + 1]
            RECURSIVE pieces(_)
            pieces(i) == IF i > Len(T) THEN <<>> ELSE piece(T[i]) \o pieces(i + 1)
            out == IF FLtZero(v) /\ result.selected = 0
                   THEN Tail(result.FormattedValue) ELSE result.FormattedValue
        IN (/\ \E i \in 1..Len(T) : T[i].Type = "TokDay"
            /\ \A i \in 1..Len(T) : T[i].Type \in {"TokDay", "TokLiteral"}) =>
               out = pieces(1)

\* C19 as the code has it: a Day token renders by its size: size 1 the day
\* of the month unpadded, size 2 the day of the month zero-padded to two
\* digits, size 3 the three-letter abbreviation of the weekday, any other
\* size (4, 5 and more) the full name of the weekday; a section of Day and
\* Literal tokens, applied to a numeric cell, displays these renderings and
\* the literal texts in the order of the tokens.
C19_DayBySize ==
    (/\ returned
     /\ cellType \in {"CellTypeNumeric", "CellTypeFormula"}
     /\ result.err = ""
     /\ result.panic = ""
     /\ result.selected >= 0
     /\ result.Section.Type = "TimeFormat") =>
        LET T == result.Section.Tokens
            v == ParseFloat(sv).v
            tf == TimeFields(TimeRound(TimeFromExcelTime(FAbs(v), date1904), TicksPerSecond),
                             date1904)
            piece(token) == CASE token.Type = "TokLiteral" -> token.Data
                              [] token.Type # "TokLiteral" /\ token.Size = 1 -> IntToStr(tf.day)
                              [] token.Type # "TokLiteral" /\ token.Size = 2 ->
                                   ZeroPad(IntToStr(tf.day), 2)
                              [] token.Type # "TokLiteral" /\ token.Size = 3 ->
                                   Take(DayNames[tf.weekday + 1], 3)
                              [] OTHER -> DayNames[tf.weekday + 1]
            RECURSIVE pieces(_)
            pieces(i) == IF i > Len(T) THEN <<>> ELSE piece(T[i]) \o pieces(i + 1)
            out == IF FLtZero(v) /\ result.selected = 0
                   THEN Tail(result.FormattedValue) ELSE result.FormattedValue
        IN (/\ \E i \in 1..Len(T) : T[i].Type = "TokDay"
            /\ \A i \in 1..Len(T) : T[i].Type \in {"TokDay", "TokLiteral"}) =>
               out = pieces(1)

\* serial 1 under "ddd d" of the 1900 epoch is Monday the first
C19_Witness ==
    /\ returned
    /\ format = <<"d", "d", "d", " ", "d">>
    /\ cellType = "CellTypeNumeric"
    /\ sv = <<"1">>
    /\ ~date1904
    /\ result.FormattedValue = <<"M", "o", "n", " ", "1">>

(***************************************************************************)
(* Order of the tokens                                                     *)
(***************************************************************************)
\* C20: the order of the tokens is the order of the source: whenever a step
\* of the parser emits a structural token (any token other than Literal,
\* NumDecSign for '.' in particular) while literal text is pending, the
\* pending text is first flushed as one Literal token, which thus stands
\* before the structural token in the token list.
C20_FlushBeforeToken ==
    [][LET old == parser.tokens
           new == parser'.tokens
       IN (/\ Len(new) > Len(old)
           /\ new[Len(new)].Type # "TokLiteral"
           /\ Len(parser.other) > 0) =>
              /\ Len(new) = Len(old) + 2
              /\ new[Len(old) + 1] = Tok("TokLiteral", 0, parser.other)]_vars

(***************************************************************************)
(* '_' and '*' at the end of the input                                     *)
(***************************************************************************)
\* C21: a '_' or a '*' that is the last byte of the format string becomes
\* plain literal text consisting of that same byte, at the top level, in a
\* time section and in a numeric section alike: for a format whose last
\* byte is '_' or '*' and is not taken by a quote, escape, bracket, '_' or
\* '*' before it, the last token of the last section ParseFormat returned
\* is a Literal whose text ends with that byte.
C21_TrailingUnderscoreStar ==
    (/\ parser.pc = "done"
     /\ Len(format) > 0
     /\ format[Len(format)] \in {"_", "*"}
     /\ \A i \in 1..(Len(format) - 1) : format[i] \notin {"\"", "\\", "_", "*", "["}) =>
        LET n == Len(parser.sets)
            T == parser.sets[n].Tokens
            last == T[Len(T)]
        IN /\ n > 0
           /\ Len(T) > 0
           /\ last.Type = "TokLiteral"
           /\ last.Data[Len(last.Data)] = format[Len(format)]

(***************************************************************************)
(* The exponent token                                                      *)
(***************************************************************************)
\* C22: in the numeric sub-parser an 'E' or 'e' followed by an optional '+'
\* or '-' and a run of placeholder characters emits one NumExp token whose
\* data is the full pattern (the E/e, the sign if present, and the run) and
\* whose size is the number of digit placeholders of the run, for a '-'
\* sign and for no sign as well as for '+': the iteration of tokenizeNumeric
\* that reads the 'E' or 'e' leaves that token as the last token of the
\* section under construction (or of the section it has just closed).
C22_ExponentToken ==
    [][(/\ parser.pc = "num"
        /\ parser.panic = ""
        /\ Len(parser.rem) > 0
        /\ parser.rem[1] \in {"E", "e"}) =>
            LET rest == Drop(parser.rem, 1)
                sign == IF Len(rest) > 0 /\ rest[1] \in {"+", "-"} THEN <<rest[1]>> ELSE <<>>
                run == readChars(Drop(rest, Len(sign)), {"?", "#", "0"}).out
                T == IF parser'.pc = "num" THEN parser'.tokens
                     ELSE parser'.sets[Len(parser'.sets)].Tokens
            IN /\ Len(T) > 0
               /\ T[Len(T)] = Tok("TokNumExp", Len(run), <<parser.rem[1]>> \o sign \o run)]_vars

(***************************************************************************)
(* readToChar as a function of its arguments                               *)
(***************************************************************************)
MaxReadLen == 5

\* the terminators the callers pass: '"' (tokenizeCommon) and ']' (ParseFormat, tokenizeTime)
ReadTerminators == {"\"", "]"}

InitRead ==
    /\ format = <<>>
    /\ parser = ParseStart(<<>>)
    /\ NoCall
    /\ NoFrap
    /\ NoCell
    /\ \E ch \in ReadTerminators :
       \E input \in UNION {[1..n -> {"a", "\\", ch}] : n \in 0..MaxReadLen} :
          rd = ReadCall(input, ch, <<>>, <<>>, TRUE, FALSE)

\* a call of readToChar(rd.input, rd.ch)
CallReadToChar ==
    /\ ~rd.done
    /\ LET r == readToChar(rd.input, rd.ch)
       IN rd' = ReadCall(rd.input, rd.ch, r.txt, r.rem, r.isNil, TRUE)
    /\ UNCHANGED <<format, parser, sv, cellType, date1904, result, returned, fr, cell, call>>

SpecRead == InitRead /\ [][CallReadToChar]_vars

\* C23: readToChar(input, ch): when input contains an unescaped ch (a ch
\* that is the first byte or whose preceding byte is not a backslash), it
\* returns the text before the first unescaped ch with each backslash that
\* escapes a ch removed, and the remainder after that ch; when input
\* contains no unescaped ch, it returns (nil, the original input
\* unchanged), also when escaped occurrences of ch were passed on the way.
C23_ReadToChar ==
    rd.done =>
        LET input == rd.input
            unescaped == {i \in 1..Len(input) :
                             input[i] = rd.ch /\ (i = 1 \/ input[i - 1] # "\\")}
        IN IF unescaped # {}
           THEN LET p == SetMin(unescaped)
                    keep == {j \in 1..(p - 1) :
                                ~(input[j] = "\\" /\ j + 1 < p /\ input[j + 1] = rd.ch)}
                    kth(k) == CHOOSE j \in keep : Cardinality({x \in keep : x <= j}) = k
                IN /\ rd.txt = [k \in 1..Cardinality(keep) |-> input[kth(k)]]
                   /\ rd.rem = Drop(input, p)
           ELSE /\ rd.isNil
                /\ rd.txt = <<>>
                /\ rd.rem = input

(***************************************************************************)
(* Number rendering                                                        *)
(***************************************************************************)
\* C24: in Number rendering every Literal, Space and Repeat token of the
\* section emits its data into the display string at its position in token
\* order, none of them skipped: the characters of the display string that
\* no numeric token renders (all but digits, '.', ',', '/', '%', 'E', '+',
\* '-' and the blank) are, in order, those characters of the data of the
\* Literal, Space and Repeat tokens of the applied section, for every
\* numeric cell whose value is a number.
C24_LiteralSpaceRepeat ==
    (/\ returned
     /\ cellType \in {"CellTypeNumeric", "CellTypeFormula"}
     /\ result.err = ""
     /\ result.panic = ""
     /\ result.selected >= 0
     /\ result.Section.Type = "NumberFormat"
     /\ ~ParseFloat(sv).v.nan) =>
        LET T == result.Section.Tokens
            Numeric == Digits09 \cup {".", ",", "/", "%", "E", "+", "-", " "}
            text(c) == c \notin Numeric
            RECURSIVE data(_)
            data(i) == IF i > Len(T) THEN <<>>
                       ELSE (IF T[i].Type \in {"TokLiteral", "TokSpace", "TokRepeat"}
                             THEN T[i].Data ELSE <<>>) \o data(i + 1)
        IN SelectSeq(result.FormattedValue, text) = SelectSeq(data(1), text)

\* C25: in Time rendering the text a token contributes to the display
\* string depends only on that token and the value (with the clock style
\* and the resolution of its section): a token that has no time rendering
\* (Color, Condition, Space, Repeat, General, CellText) contributes nothing
\* of the preceding token, so the display string of a Time section applied
\* to a numeric cell is the concatenation, in token order, of what each
\* token renders when it is rendered alone.
C25_TokenRendersAlone ==
    (/\ returned
     /\ cellType \in {"CellTypeNumeric", "CellTypeFormula"}
     /\ result.err = ""
     /\ result.panic = ""
     /\ result.selected >= 0
     /\ result.Section.Type = "TimeFormat") =>
        LET T == result.Section.Tokens
            v == FAbs(ParseFloat(sv).v)
            d == DurationFromExcelTime(v)
            ampm == \E i \in 1..Len(T) : T[i].Type = "TokAMPM"
            t == TimeRound(TimeFromExcelTime(v, date1904), formatTimeRes(T, 1, TicksPerSecond))
            tf == TimeFields(t, date1904)
            alone(token) == formatTimeEmit(<<token>>, 1, tf, d, ampm,
                                           [output |-> <<>>, f |-> <<>>, panic |-> ""]).output
            RECURSIVE pieces(_)
            pieces(i) == IF i > Len(T) THEN <<>> ELSE alone(T[i]) \o pieces(i + 1)
            out == IF FLtZero(ParseFloat(sv).v) /\ result.selected = 0
                   THEN Tail(result.FormattedValue) ELSE result.FormattedValue
        IN out = pieces(1)

(***************************************************************************)
(* Duration rendering                                                      *)
(***************************************************************************)
\* C26: in a Duration section with a total-hours token followed by minute
\* and second tokens ([h]:mm:ss) the displayed fields denote one instant:
\* for every v >= 0, hours * 3600 + minutes * 60 + seconds equals the
\* elapsed time of v days rounded to the resolution of the format (one
\* second), also for values that lie less than half a second below a whole
\* hour.
C26_DurationOneInstant ==
    (/\ returned
     /\ cellType \in {"CellTypeNumeric", "CellTypeFormula"}
     /\ result.err = ""
     /\ result.panic = ""
     /\ result.selected >= 0
     /\ result.Section.Type = "TimeFormat"
     /\ result.Section.Tokens = << Tok("TokTotalHours", 1, <<>>), Tok("TokLiteral", 0, <<":">>),
                                   Tok("TokMinute", 2, <<>>), Tok("TokLiteral", 0, <<":">>),
                                   Tok("TokSecond", 2, <<>>) >>
     /\ ~FLtZero(ParseFloat(sv).v)) =>
        LET out == result.FormattedValue
            n == Len(out)
            hours == StrToInt(Take(out, n - 6))
            minutes == StrToInt(SubSeq(out, n - 4, n - 3))
            seconds == StrToInt(SubSeq(out, n - 1, n))
            elapsed == TimeRound(DurationFromExcelTime(ParseFloat(sv).v), TicksPerSecond)
        IN /\ n >= 7
           /\ out[n - 5] = ":"
           /\ out[n - 2] = ":"
           /\ (hours * 3600 + minutes * 60 + seconds) * TicksPerSecond = elapsed

(***************************************************************************)
(* The selector of FormatValue                                             *)
(***************************************************************************)
\* C27: the case analysis of the selector of FormatValue is exhaustive: for
\* every number of sections, every textual cell and every numeric cell
\* whose text strconv.ParseFloat accepts (positive, negative, zero,
\* negative zero and NaN), a selection rule applies, the index of the
\* selected section is less than the number of sections, and the panic
\* "Unhandled condition" is not reached.
C27_SelectorExhaustive ==
    (/\ returned
     /\ cellType \in {"CellTypeNumeric", "CellTypeFormula", "CellTypeString", "CellTypeInline"}
     /\ result.err = "") =>
        LET isNumber == cellType \in {"CellTypeNumeric", "CellTypeFormula"}
            fv == IF isNumber THEN ParseFloat(sv).v ELSE FZero
        IN /\ SelectCase(Len(cfmt.Sections), isNumber, fv) # "default"
           /\ result.panic # "Unhandled condition"
           /\ result.selected < Len(cfmt.Sections)

\* C28: the minus sign of a negative numeric value appears at most once in
\* the display string: for a numeric cell with v < 0 and a one-section
\* format whose section consists of CellText ('@') and Literal tokens, the
\* display string is the literal texts and the raw text sv, which already
\* carries its sign, in token order, with no '-' put in front of them.
C28_SingleMinus ==
    (/\ returned
     /\ cellType \in {"CellTypeNumeric", "CellTypeFormula"}
     /\ result.err = ""
     /\ result.panic = ""
     /\ Len(cfmt.Sections) = 1
     /\ FLtZero(ParseFloat(sv).v)
     /\ \E i \in 1..Len(cfmt.Sections[1].Tokens) :
           cfmt.Sections[1].Tokens[i].Type = "TokCellText"
     /\ \A i \in 1..Len(cfmt.Sections[1].Tokens) :
           cfmt.Sections[1].Tokens[i].Type \in {"TokCellText", "TokLiteral"}) =>
        LET T == cfmt.Sections[1].Tokens
            RECURSIVE pieces(_)
            pieces(i) == IF i > Len(T) THEN <<>>
                         ELSE (IF T[i].Type = "TokCellText" THEN sv ELSE T[i].Data)
                                 \o pieces(i + 1)
        IN result.FormattedValue = pieces(1)

(***************************************************************************)
(* The compiled format a Cell caches                                       *)
(***************************************************************************)
\* C29: after any sequence of Cell operations (SetString, SetInt, SetFloat,
\* SetFloatWithFormat, SetBool, SetFormula, String, Float and the
\* Format/FormattedValue calls they make), whenever the cached compiled
\* format cfmt of the cell is non-nil it equals ParseFormat of the cell's
\* current numFmt.
C29_CacheCoherence ==
    ~cell.cfmt.nil => cell.cfmt = Compiled(ParseFormat(cell.numFmt))

(***************************************************************************)
(* Mixed numbers                                                           *)
(***************************************************************************)
\* C30: in a mixed-number format (an integer token together with a
\* fraction, "# #/#") and for every v >= 0, the integer displayed is the
\* whole part of v (truncation; nothing is displayed for 0) and the fraction
\* num/den displayed is the approximation of the fractional part of v, so
\* that integer + num/den differs from v by no more than the approximation
\* error of the fraction; the integer is never rounded up while the fraction
\* is computed from the unrounded fractional part.
C30_MixedNumber ==
    (/\ returned
     /\ cellType \in {"CellTypeNumeric", "CellTypeFormula"}
     /\ result.err = ""
     /\ result.panic = ""
     /\ result.selected >= 0
     /\ result.Section.Type = "NumberFormat"
     /\ result.Section.Tokens = << Tok("TokNumInt", 0, <<"#">>), Tok("TokLiteral", 0, <<" ">>),
                                   Tok("TokNumFracNum", 0, <<"#">>), Tok("TokNumFracSign", 0, <<>>),
                                   Tok("TokNumFracDenom", 0, <<"#">>) >>
     /\ ~ParseFloat(sv).v.nan
     /\ ~FLtZero(ParseFloat(sv).v)) =>
        LET v == ParseFloat(sv).v
            out == result.FormattedValue
            blank == IndexByte(out, " ") + 1
            slash == IndexByte(out, "/") + 1
            integer == StrToInt(Take(out, blank - 1))
            num == StrToInt(SubSeq(out, blank + 1, slash - 1))
            den == StrToInt(Drop(out, slash))
            approx == frap(FModfFrac(v), 9)
        IN /\ blank >= 1
           /\ slash > blank + 1
           /\ slash < Len(out)
           /\ integer = v.n \div v.d
           /\ num = approx.num
           /\ den = approx.denom

====
